---- MODULE Spec2Model ----
(***************************************************************************)
(* Subscription-state reconciliation of the QR lead-capture service:       *)
(* the Stripe webhook, the PayPal create-subscription endpoint and the     *)
(* PayPal webhook of src/app.py acting on the venues table of              *)
(* src/models.py.                                                          *)
(*                                                                         *)
(* The venues table is a sequence: a Venue's id is its position (an        *)
(* autoincrement primary key; no operation modelled here deletes a row).   *)
(* A NULL column and a missing JSON key are both the value None.           *)
(* Query.first() carries no ORDER BY; the model returns the matching row   *)
(* of lowest id, which is the order a scan of the table yields.            *)
(***************************************************************************)
EXTENDS Integers, Sequences, FiniteSets, TLC

\* ------------------------------------------------------------------ bounds
\* Rows the venues table may hold; a request that would insert one more is
\* not delivered.
MaxVenues == 2
\* Requests delivered in one run.
MaxRequests == 3

\* ------------------------------------------------------------ value domains
None == "None"

\* Stripe customers; a Stripe subscription belongs to exactly one customer.
Customers == {"cus_1", "cus_2"}
SubscriptionOf(c) == IF c = "cus_1" THEN "sub_1" ELSE "sub_2"
Subscriptions == {SubscriptionOf(c) : c \in Customers}

PaypalIds == {"I-1", "I-2"}

\* Email strings as they arrive in requests; some differ only in case and
\* surrounding blanks.
\* metadata['email'] of a checkout session: signup() strips it, no more.
StripeEmails == {"a@b.com", "A@B.com", "c@d.com"}
\* data.get('email') of a create-subscription request (None: not given).
PaypalEmails == {" A@B.com ", "c@d.com", None}
\* subscriber.email_address of the subscription PayPal returns.
SubscriberEmails == {"c@d.com", None}
VenueNames == {"Cafe"}

\* subscription['status'] as Stripe reports it; "incomplete" stands for the
\* statuses outside the four the Venue model documents.
StripeStatuses == {"trialing", "active", "past_due", "canceled", "incomplete"}
\* sub_data.get('status') as PayPal reports it (None: the key is missing).
PaypalStatuses == {"APPROVAL_PENDING", "ACTIVE", "SUSPENDED", None}

PaypalTypes == {"BILLING.SUBSCRIPTION.ACTIVATED", "BILLING.SUBSCRIPTION.CANCELLED",
                "BILLING.SUBSCRIPTION.SUSPENDED", "PAYMENT.SALE.COMPLETED",
                "BILLING.SUBSCRIPTION.CREATED"}

\* ------------------------------------------------------------------- state
VARIABLES
    venues,          \* the venues table, in id order
    session,         \* session['venue_id'] of the browser session (0: not set)
    last,            \* the request handled last, with its response
    before,          \* the venues table as that request found it
    session_before,  \* session['venue_id'] as that request found it
    requests,        \* the number of requests delivered
    files,           \* the logo and menu columns of the venues table, in id order
    workers,         \* the requests in progress, one for each server worker
                     \* that handles one (none where requests run one by one)
    leads,           \* the leads table, in id order
    welcomes         \* the calls of send_welcome_email, in order, each with
                     \* what mail.send did; a failed send changes nothing in
                     \* the program, and only the signup actions record them

vars == <<venues, session, last, before, session_before, requests, files, workers,
          leads, welcomes>>

\* ------------------------------------------------------- string conversions
\* str.strip()
Strip(s) ==
    CASE s = " A@B.com " -> "A@B.com"
      [] s = " x@y.com " -> "x@y.com"
      [] s = "  " -> ""
      [] OTHER -> s

\* str.lower() and SQL lower()
Lower(s) ==
    CASE s = "A@B.com" -> "a@b.com"
      [] s = " A@B.com " -> " a@b.com "
      [] OTHER -> s

\* ------------------------------------------------------------ the table
\* Venue(...) with the column defaults of the model class.
NewVenue(name, email, provider, cus, sub, pp, status) ==
    [name |-> name, email |-> email, payment_provider |-> provider,
     stripe_customer_id |-> cus, stripe_subscription_id |-> sub,
     paypal_subscription_id |-> pp, subscription_status |-> status,
     active |-> TRUE]

Ids(vs) == 1..Len(vs)

\* File contents: what the leading bytes identify and the length in bytes.
\* NoData is the NULL of a LargeBinary column.
NoData == [magic |-> None, size |-> 0]

\* The logo and menu columns of a Venue just created: all NULL.
NoFiles ==
    [logo_data |-> NoData, logo_filename |-> None, logo_content_type |-> None,
     menu_data |-> NoData, menu_filename |-> None, menu_content_type |-> None]

\* The logo and menu columns after a request that left the table vs: a row
\* the request inserted has none.
FilesOf(vs) == IF Len(vs) > Len(files) THEN Append(files, NoFiles) ELSE files

\* The lowest id of a set of ids, 0 for the empty set: Query.first().
First(S) == IF S = {} THEN 0 ELSE CHOOSE i \in S : \A j \in S : i <= j

\* filter_by(col=value): a None value compiles to IS NULL and matches the
\* rows whose column is NULL.
ByStripeCustomer(vs, c) == First({i \in Ids(vs) : vs[i].stripe_customer_id = c})
ByStripeSubscription(vs, s) == First({i \in Ids(vs) : vs[i].stripe_subscription_id = s})
ByPaypalSubscription(vs, p) == First({i \in Ids(vs) : vs[i].paypal_subscription_id = p})
\* filter(db.func.lower(Venue.email) == email)
ByLowerEmail(vs, e) == First({i \in Ids(vs) : Lower(vs[i].email) = e})

\* --------------------------------------------------- Stripe event handlers
\* handle_checkout_completed without the lookup by customer: a blind insert.
handle_checkout_completed_unguarded(vs, cs) ==
    Append(vs, NewVenue(cs.venue_name, cs.email, "stripe", cs.customer,
                        cs.subscription,  None,
                        IF cs.subscription # None THEN "trialing" ELSE "active"))

\* handle_checkout_completed that starts every Venue as trialing.
handle_checkout_completed_always_trialing(vs, cs) ==
    IF ByStripeCustomer(vs, cs.customer) # 0
    THEN vs
    ELSE Append(vs, NewVenue(cs.venue_name, cs.email, "stripe", cs.customer,
                             cs.subscription,  None, "trialing"))

\* handle_checkout_completed: the table after the event.
handle_checkout_completed(vs, cs) ==
    IF ByStripeCustomer(vs, cs.customer) # 0
    THEN vs
    ELSE Append(vs, NewVenue(cs.venue_name, cs.email, "stripe", cs.customer,
                             cs.subscription,  None,
                             IF cs.subscription # None THEN "trialing" ELSE "active"))

\* handle_subscription_updated that stores only the four documented statuses.
handle_subscription_updated_known_statuses(vs, subscription) ==
    LET v == ByStripeSubscription(vs, subscription.id) IN
    IF v # 0 /\ subscription.status \in {"trialing", "active", "past_due", "canceled"}
    THEN [vs EXCEPT ![v].subscription_status = subscription.status]
    ELSE vs

\* handle_subscription_updated: the table after the event.
handle_subscription_updated(vs, subscription) ==
    LET v == ByStripeSubscription(vs, subscription.id) IN
    IF v # 0
    THEN [vs EXCEPT ![v].subscription_status = subscription.status]
    ELSE vs

\* handle_subscription_deleted that leaves the active flag alone.
handle_subscription_deleted_status_only(vs, subscription) ==
    LET v == ByStripeSubscription(vs, subscription.id) IN
    IF v # 0
    THEN [vs EXCEPT ![v].subscription_status = "canceled"]
    ELSE vs

\* handle_subscription_deleted: the table after the event.
handle_subscription_deleted(vs, subscription) ==
    LET v == ByStripeSubscription(vs, subscription.id) IN
    IF v # 0
    THEN [vs EXCEPT ![v].subscription_status = "canceled", ![v].active = FALSE]
    ELSE vs

\* handle_payment_failed that leaves a canceled Venue canceled.
handle_payment_failed_skips_canceled(vs, invoice) ==
    LET v == ByStripeCustomer(vs, invoice.customer) IN
    IF v # 0 /\ vs[v].subscription_status # "canceled"
    THEN [vs EXCEPT ![v].subscription_status = "past_due"]
    ELSE vs

\* handle_payment_failed that cancels a Venue already past due.
handle_payment_failed_escalates(vs, invoice) ==
    LET v == ByStripeCustomer(vs, invoice.customer) IN
    IF v # 0
    THEN [vs EXCEPT ![v].subscription_status =
                        IF @ = "past_due" THEN "canceled" ELSE "past_due"]
    ELSE vs

\* handle_payment_failed: the table after the event.
handle_payment_failed(vs, invoice) ==
    LET v == ByStripeCustomer(vs, invoice.customer) IN
    IF v # 0
    THEN [vs EXCEPT ![v].subscription_status = "past_due"]
    ELSE vs

\* The dispatch with a last branch that is an else, not an elif.
StripeDispatch_fallthrough(vs, ev) ==
    CASE ev.type = "checkout.session.completed" -> handle_checkout_completed(vs, ev.object)
      [] ev.type = "customer.subscription.updated" -> handle_subscription_updated(vs, ev.object)
      [] ev.type = "customer.subscription.deleted" -> handle_subscription_deleted(vs, ev.object)
      [] ev.type = "invoice.payment_failed" -> handle_payment_failed(vs, ev.object)
      [] OTHER -> handle_payment_failed(vs, [customer |-> ev.object.id])

\* The dispatch of stripe_webhook on event['type'].
StripeDispatch(vs, ev) ==
    CASE ev.type = "checkout.session.completed" -> handle_checkout_completed(vs, ev.object)
      [] ev.type = "customer.subscription.updated" -> handle_subscription_updated(vs, ev.object)
      [] ev.type = "customer.subscription.deleted" -> handle_subscription_deleted(vs, ev.object)
      [] ev.type = "invoice.payment_failed" -> handle_payment_failed(vs, ev.object)
      [] OTHER -> vs

\* What stripe.Webhook.construct_event does with the request.
ConstructOutcomes == {"event", "ValueError", "SignatureVerificationError"}

\* The events Stripe signs. A checkout session of this service carries the
\* metadata signup() put there; its subscription, when it has one, is the
\* customer's.
CheckoutSessions ==
    [customer : Customers, subscription : Subscriptions \cup {None},
     venue_name : VenueNames, email : StripeEmails]
StripeEvents ==
    { [type |-> "checkout.session.completed", object |-> cs] :
        cs \in {x \in CheckoutSessions :
                  x.subscription \in {None, SubscriptionOf(x.customer)}} }
    \cup { [type |-> "customer.subscription.updated", object |-> o] :
             o \in [id : Subscriptions, status : StripeStatuses] }
    \cup { [type |-> "customer.subscription.deleted", object |-> o] :
             o \in [id : Subscriptions] }
    \cup { [type |-> "invoice.payment_failed", object |-> o] :
             o \in [customer : Customers \cup {None}] }
    \cup { [type |-> "customer.created", object |-> o] :
             o \in [id : Customers] }

\* What the payload of a request that construct_event refuses claims to be:
\* one event of each type, about the first customer.
RefusedEvents ==
    {ev \in StripeEvents :
        /\ ev.type \in {"checkout.session.completed", "invoice.payment_failed"}
              => ev.object.customer = "cus_1"
        /\ ev.type = "checkout.session.completed"
              => ev.object.subscription = "sub_1" /\ ev.object.email = "a@b.com"
        /\ ev.type \in {"customer.subscription.updated", "customer.subscription.deleted"}
              => ev.object.id = "sub_1"
        /\ ev.type = "customer.subscription.updated" => ev.object.status = "canceled"
        /\ ev.type = "customer.created" => ev.object.id = "cus_1"}

\* The id a Stripe event is about, for the request log.
StripeEventId(ev) ==
    CASE ev.type = "checkout.session.completed" -> ev.object.customer
      [] ev.type = "invoice.payment_failed" -> ev.object.customer
      [] OTHER -> ev.object.id

\* What else the log keeps of a Stripe event: the session's subscription, the
\* reported status.
StripeEventArg(ev) ==
    CASE ev.type = "checkout.session.completed" -> ev.object.subscription
      [] ev.type = "customer.subscription.updated" -> ev.object.status
      [] OTHER -> None

\* stripe_webhook that handles the payload before it looks at the verdict
\* of construct_event.
StripeWebhook_dispatch_first(vs, outcome, ev) ==
    CASE outcome = "ValueError" ->
            [venues |-> StripeDispatch(vs, ev), code |-> 400, body |-> "Invalid payload"]
      [] outcome = "SignatureVerificationError" ->
            [venues |-> StripeDispatch(vs, ev), code |-> 400, body |-> "Invalid signature"]
      [] OTHER ->
            [venues |-> StripeDispatch(vs, ev), code |-> 200, body |-> "received"]

\* The body of stripe_webhook: the table after the request and the response.
StripeWebhook(vs, outcome, ev) ==
    CASE outcome = "ValueError" ->
            [venues |-> vs, code |-> 400, body |-> "Invalid payload"]
      [] outcome = "SignatureVerificationError" ->
            [venues |-> vs, code |-> 400, body |-> "Invalid signature"]
      [] OTHER ->
            [venues |-> StripeDispatch(vs, ev), code |-> 200, body |-> "received"]

\* An entry of the request log.
Logged(op, outcome, type, id, arg, code, body, vid) ==
    [op |-> op, outcome |-> outcome, type |-> type, id |-> id, arg |-> arg,
     code |-> code, body |-> body, venue_id |-> vid]

\* POST /webhook/stripe
stripe_webhook ==
    /\ requests < MaxRequests
    /\ \E outcome \in ConstructOutcomes :
       \E ev \in IF outcome = "event" THEN StripeEvents ELSE RefusedEvents :
        LET r == StripeWebhook(venues, outcome, ev) IN
        /\ Len(r.venues) <= MaxVenues
        /\ requests' = requests + 1
        /\ venues' = r.venues
        /\ session' = session
        /\ before' = venues
        /\ session_before' = session
        /\ last' = Logged("stripe_webhook", outcome, ev.type, StripeEventId(ev),
                          StripeEventArg(ev), r.code, r.body, 0)
        /\ files' = FilesOf(r.venues)
        /\ UNCHANGED workers
    /\ UNCHANGED <<leads, welcomes>>

\* ------------------------------------------- PayPal create-subscription
\* What the two outbound calls of the verification block come to.
\*   token_error     requests.post raises requests.RequestException
\*   no_token        the token response carries no access_token
\*   get_error       requests.get raises requests.RequestException
\*   non_200         the subscription lookup answers with another status than 200
\*   other_error     an exception that is no RequestException (caught by the
\*                   outer handler, which rolls back)
\*   verified        the lookup answers 200 with the subscription
\*   not_called      the request is answered before PayPal is called
VerifyOutcomes == {"token_error", "no_token", "get_error", "non_200",
                   "other_error", "verified", "not_called"}

\* The JSON body of the request. session['pending_email'] and
\* session['pending_venue_name'] only stand in for a field the body leaves
\* out (x = data.get(..) or session.get(..)), so the fields here are the
\* values after that fallback.
PaypalRequests ==
    [subscription_id : PaypalIds \cup {None}, email : PaypalEmails,
     venue_name : VenueNames \cup {None}]

\* response.json() of a verified subscription.
SubData == [status : PaypalStatuses, email_address : SubscriberEmails]

\* x or y, for strings and None
Or(x, y) == IF x # None /\ x # "" THEN x ELSE y

\* email_to_use
EmailToUse(email, sub_data) ==
    Lower(Strip(Or(email, Or(sub_data.email_address, ""))))

\* The resolution without its first lookup, by subscription id.
ResolveIdentity_no_subscription_lookup(vs, req, sub_data) ==
    LET email_to_use == EmailToUse(req.email, sub_data)
        existing_email == ByLowerEmail(vs, email_to_use)
    IN  IF existing_email # 0
        THEN [venues |->
                [vs EXCEPT ![existing_email].paypal_subscription_id = req.subscription_id,
                           ![existing_email].payment_provider = "paypal",
                           ![existing_email].subscription_status =
                               IF sub_data.status \in {"APPROVAL_PENDING", "ACTIVE"}
                               THEN "trialing" ELSE "active"],
              venue_id |-> existing_email, redirect |-> "dashboard"]
        ELSE [venues |->
                Append(vs, NewVenue(Or(req.venue_name, "New Venue"), email_to_use,
                                    "paypal", None, None, req.subscription_id,
                                    "trialing")),
              venue_id |-> Len(vs) + 1, redirect |-> "signup_success_paypal"]

\* The resolution with its two lookups in the other order: email first.
ResolveIdentity_email_first(vs, req, sub_data) ==
    LET existing == ByPaypalSubscription(vs, req.subscription_id)
        email_to_use == EmailToUse(req.email, sub_data)
        existing_email == ByLowerEmail(vs, email_to_use)
    IN  IF existing_email # 0
        THEN [venues |->
                [vs EXCEPT ![existing_email].paypal_subscription_id = req.subscription_id,
                           ![existing_email].payment_provider = "paypal",
                           ![existing_email].subscription_status =
                               IF sub_data.status \in {"APPROVAL_PENDING", "ACTIVE"}
                               THEN "trialing" ELSE "active"],
              venue_id |-> existing_email, redirect |-> "dashboard"]
        ELSE IF existing # 0
        THEN [venues |-> vs, venue_id |-> existing, redirect |-> "dashboard"]
        ELSE [venues |->
                Append(vs, NewVenue(Or(req.venue_name, "New Venue"), email_to_use,
                                    "paypal", None, None, req.subscription_id,
                                    "trialing")),
              venue_id |-> Len(vs) + 1, redirect |-> "signup_success_paypal"]

\* The resolution whose new Venue takes its status from PayPal's, as the
\* attached one does.
ResolveIdentity_status_from_paypal(vs, req, sub_data) ==
    LET existing == ByPaypalSubscription(vs, req.subscription_id)
        email_to_use == EmailToUse(req.email, sub_data)
        existing_email == ByLowerEmail(vs, email_to_use)
        status == IF sub_data.status \in {"APPROVAL_PENDING", "ACTIVE"}
                  THEN "trialing" ELSE "active"
    IN  IF existing # 0
        THEN [venues |-> vs, venue_id |-> existing, redirect |-> "dashboard"]
        ELSE IF existing_email # 0
        THEN [venues |->
                [vs EXCEPT ![existing_email].paypal_subscription_id = req.subscription_id,
                           ![existing_email].payment_provider = "paypal",
                           ![existing_email].subscription_status = status],
              venue_id |-> existing_email, redirect |-> "dashboard"]
        ELSE [venues |->
                Append(vs, NewVenue(Or(req.venue_name, "New Venue"), email_to_use,
                                    "paypal", None, None, req.subscription_id,
                                    status)),
              venue_id |-> Len(vs) + 1, redirect |-> "signup_success_paypal"]

\* The resolution whose attachment leaves a canceled Venue canceled.
ResolveIdentity_attach_keeps_canceled(vs, req, sub_data) ==
    LET existing == ByPaypalSubscription(vs, req.subscription_id)
        email_to_use == EmailToUse(req.email, sub_data)
        existing_email == ByLowerEmail(vs, email_to_use)
        status == IF sub_data.status \in {"APPROVAL_PENDING", "ACTIVE"}
                  THEN "trialing" ELSE "active"
    IN  IF existing # 0
        THEN [venues |-> vs, venue_id |-> existing, redirect |-> "dashboard"]
        ELSE IF existing_email # 0
        THEN [venues |->
                [vs EXCEPT ![existing_email].paypal_subscription_id = req.subscription_id,
                           ![existing_email].payment_provider = "paypal",
                           ![existing_email].subscription_status =
                               IF @ = "canceled" THEN @ ELSE status],
              venue_id |-> existing_email, redirect |-> "dashboard"]
        ELSE [venues |->
                Append(vs, NewVenue(Or(req.venue_name, "New Venue"), email_to_use,
                                    "paypal", None, None, req.subscription_id,
                                    "trialing")),
              venue_id |-> Len(vs) + 1, redirect |-> "signup_success_paypal"]

\* The resolution whose attachment switches the Venue back on.
ResolveIdentity_attach_reactivates(vs, req, sub_data) ==
    LET existing == ByPaypalSubscription(vs, req.subscription_id)
        email_to_use == EmailToUse(req.email, sub_data)
        existing_email == ByLowerEmail(vs, email_to_use)
        status == IF sub_data.status \in {"APPROVAL_PENDING", "ACTIVE"}
                  THEN "trialing" ELSE "active"
    IN  IF existing # 0
        THEN [venues |-> vs, venue_id |-> existing, redirect |-> "dashboard"]
        ELSE IF existing_email # 0
        THEN [venues |->
                [vs EXCEPT ![existing_email].paypal_subscription_id = req.subscription_id,
                           ![existing_email].payment_provider = "paypal",
                           ![existing_email].subscription_status = status,
                           ![existing_email].active = TRUE],
              venue_id |-> existing_email, redirect |-> "dashboard"]
        ELSE [venues |->
                Append(vs, NewVenue(Or(req.venue_name, "New Venue"), email_to_use,
                                    "paypal", None, None, req.subscription_id,
                                    "trialing")),
              venue_id |-> Len(vs) + 1, redirect |-> "signup_success_paypal"]

\* The resolution whose attachment drops the Venue's Stripe identifiers.
ResolveIdentity_attach_clears_stripe(vs, req, sub_data) ==
    LET existing == ByPaypalSubscription(vs, req.subscription_id)
        email_to_use == EmailToUse(req.email, sub_data)
        existing_email == ByLowerEmail(vs, email_to_use)
        status == IF sub_data.status \in {"APPROVAL_PENDING", "ACTIVE"}
                  THEN "trialing" ELSE "active"
    IN  IF existing # 0
        THEN [venues |-> vs, venue_id |-> existing, redirect |-> "dashboard"]
        ELSE IF existing_email # 0
        THEN [venues |->
                [vs EXCEPT ![existing_email].paypal_subscription_id = req.subscription_id,
                           ![existing_email].payment_provider = "paypal",
                           ![existing_email].subscription_status = status,
                           ![existing_email].stripe_customer_id = None,
                           ![existing_email].stripe_subscription_id = None],
              venue_id |-> existing_email, redirect |-> "dashboard"]
        ELSE [venues |->
                Append(vs, NewVenue(Or(req.venue_name, "New Venue"), email_to_use,
                                    "paypal", None, None, req.subscription_id,
                                    "trialing")),
              venue_id |-> Len(vs) + 1, redirect |-> "signup_success_paypal"]

\* The resolution whose attach also stores the normalised email.
ResolveIdentity_attach_stores_email(vs, req, sub_data) ==
    LET existing == ByPaypalSubscription(vs, req.subscription_id)
        email_to_use == EmailToUse(req.email, sub_data)
        existing_email == ByLowerEmail(vs, email_to_use)
    IN  IF existing # 0
        THEN [venues |-> vs, venue_id |-> existing, redirect |-> "dashboard"]
        ELSE IF existing_email # 0
        THEN [venues |->
                [vs EXCEPT ![existing_email].paypal_subscription_id = req.subscription_id,
                           ![existing_email].payment_provider = "paypal",
                           ![existing_email].email = email_to_use,
                           ![existing_email].subscription_status =
                               IF sub_data.status \in {"APPROVAL_PENDING", "ACTIVE"}
                               THEN "trialing" ELSE "active"],
              venue_id |-> existing_email, redirect |-> "dashboard"]
        ELSE [venues |->
                Append(vs, NewVenue(Or(req.venue_name, "New Venue"), email_to_use,
                                    "paypal", None, None, req.subscription_id,
                                    "trialing")),
              venue_id |-> Len(vs) + 1, redirect |-> "signup_success_paypal"]

\* The three-way resolution after a successful verification: the table
\* after it, the venue logged in and the page the client is sent to.
ResolveIdentity(vs, req, sub_data) ==
    LET existing == ByPaypalSubscription(vs, req.subscription_id)
        email_to_use == EmailToUse(req.email, sub_data)
        existing_email == ByLowerEmail(vs, email_to_use)
    IN  IF existing # 0
        THEN [venues |-> vs, venue_id |-> existing, redirect |-> "dashboard"]
        ELSE IF existing_email # 0
        THEN [venues |->
                [vs EXCEPT ![existing_email].paypal_subscription_id = req.subscription_id,
                           ![existing_email].payment_provider = "paypal",
                           ![existing_email].subscription_status =
                               IF sub_data.status \in {"APPROVAL_PENDING", "ACTIVE"}
                               THEN "trialing" ELSE "active"],
              venue_id |-> existing_email, redirect |-> "dashboard"]
        ELSE [venues |->
                Append(vs, NewVenue(Or(req.venue_name, "New Venue"), email_to_use,
                                    "paypal", None, None, req.subscription_id,
                                    "trialing")),
              venue_id |-> Len(vs) + 1, redirect |-> "signup_success_paypal"]

\* A verification block that does not look at the lookup's status code.
Verified_any_status(outcome) == outcome \in {"verified", "non_200"}

\* Whether the verification block lets the request through.
Verified(outcome) == outcome = "verified"

\* One response for every failure of the verification.
VerifyFailure_uniform(outcome) ==
    [code |-> 503, body |-> "Payment service unavailable"]

\* The response of the verification block when it does not.
VerifyFailure(outcome) ==
    CASE outcome = "no_token" -> [code |-> 500, body |-> "Payment verification failed"]
      [] outcome = "non_200" ->
            [code |-> 400, body |-> "Could not verify subscription with PayPal"]
      [] outcome \in {"token_error", "get_error"} ->
            [code |-> 503, body |-> "Payment service unavailable"]
      [] OTHER ->
            [code |-> 500,
             body |-> "Account creation failed. Please try again or contact support."]

\* paypal_create_subscription that asks PayPal before it looks at the
\* subscription id.
CreateSubscription_verify_first(vs, sess, req, outcome, sub_data) ==
    IF ~Verified(outcome)
    THEN [venues |-> vs, session |-> sess, code |-> VerifyFailure(outcome).code,
          body |-> VerifyFailure(outcome).body, venue_id |-> 0]
    ELSE IF req.subscription_id = None
    THEN [venues |-> vs, session |-> sess, code |-> 400,
          body |-> "No subscription ID provided", venue_id |-> 0]
    ELSE LET r == ResolveIdentity(vs, req, sub_data) IN
         [venues |-> r.venues, session |-> r.venue_id, code |-> 200,
          body |-> r.redirect, venue_id |-> r.venue_id]

\* The body of paypal_create_subscription: the table and session['venue_id']
\* after the request, and the response. sub_data is what the lookup returns
\* (read only once the request is verified).
CreateSubscription(vs, sess, req, outcome, sub_data) ==
    IF req.subscription_id = None
    THEN [venues |-> vs, session |-> sess, code |-> 400,
          body |-> "No subscription ID provided", venue_id |-> 0]
    ELSE IF ~Verified(outcome)
    THEN [venues |-> vs, session |-> sess, code |-> VerifyFailure(outcome).code,
          body |-> VerifyFailure(outcome).body, venue_id |-> 0]
    ELSE LET r == ResolveIdentity(vs, req, sub_data) IN
         [venues |-> r.venues, session |-> r.venue_id, code |-> 200,
          body |-> r.redirect, venue_id |-> r.venue_id]

\* The requests delivered, each with the outcome of its verification and
\* the subscription PayPal holds for it. The subscriber's address is only
\* read when the request gives no email; a request without subscription id
\* is answered before PayPal is called, and one that is not verified is
\* described by its subscription id. The venue name is read on the path
\* that does not read the subscription's status, so a request that gives
\* one is for an ACTIVE subscription.
CreateCalls ==
    {x \in [req : PaypalRequests, outcome : VerifyOutcomes, sub_data : SubData] :
        /\ x.req.email # None => x.sub_data.email_address = None
        /\ x.req.venue_name # None => x.sub_data.status = "ACTIVE"
        /\ x.req.subscription_id = None <=> x.outcome = "not_called"
        /\ x.outcome # "verified" =>
              /\ x.req.email = "c@d.com" /\ x.req.venue_name = None
              /\ x.sub_data = [status |-> "SUSPENDED", email_address |-> None]}

\* POST /api/paypal/create-subscription
paypal_create_subscription ==
    /\ requests < MaxRequests
    /\ \E x \in CreateCalls :
        LET r == CreateSubscription(venues, session, x.req, x.outcome, x.sub_data) IN
        /\ Len(r.venues) <= MaxVenues
        /\ requests' = requests + 1
        /\ before' = venues
        /\ session_before' = session
        /\ venues' = r.venues
        /\ session' = r.session
        /\ last' = Logged("paypal_create_subscription", x.outcome, x.sub_data.status,
                          x.req.subscription_id, EmailToUse(x.req.email, x.sub_data),
                          r.code, r.body, r.venue_id)
        /\ files' = FilesOf(r.venues)
        /\ UNCHANGED workers
    /\ UNCHANGED <<leads, welcomes>>

\* ------------------------------------------------------- PayPal webhook
\* paypal_webhook as an upsert: an activation for a subscription no Venue
\* has inserts one.
PaypalDispatch_upsert(vs, event_type, subscription_id) ==
    LET v == ByPaypalSubscription(vs, subscription_id) IN
    CASE event_type = "BILLING.SUBSCRIPTION.ACTIVATED" /\ v # 0 ->
            [vs EXCEPT ![v].subscription_status = "active"]
      [] event_type = "BILLING.SUBSCRIPTION.ACTIVATED" /\ v = 0 /\ Len(vs) < MaxVenues ->
            Append(vs, NewVenue("New Venue", "", "paypal", None, None,
                                subscription_id, "active"))
      [] event_type = "BILLING.SUBSCRIPTION.CANCELLED" /\ v # 0 ->
            [vs EXCEPT ![v].subscription_status = "canceled", ![v].active = FALSE]
      [] event_type = "BILLING.SUBSCRIPTION.SUSPENDED" /\ v # 0 ->
            [vs EXCEPT ![v].subscription_status = "past_due"]
      [] OTHER -> vs

\* paypal_webhook whose activation also switches the Venue back on.
PaypalDispatch_reactivates(vs, event_type, subscription_id) ==
    LET v == ByPaypalSubscription(vs, subscription_id) IN
    CASE event_type = "BILLING.SUBSCRIPTION.ACTIVATED" /\ v # 0 ->
            [vs EXCEPT ![v].subscription_status = "active", ![v].active = TRUE]
      [] event_type = "BILLING.SUBSCRIPTION.CANCELLED" /\ v # 0 ->
            [vs EXCEPT ![v].subscription_status = "canceled", ![v].active = FALSE]
      [] event_type = "BILLING.SUBSCRIPTION.SUSPENDED" /\ v # 0 ->
            [vs EXCEPT ![v].subscription_status = "past_due"]
      [] OTHER -> vs

\* paypal_webhook whose cancellation deletes the Venue's row.
PaypalDispatch_hard_delete(vs, event_type, subscription_id) ==
    LET v == ByPaypalSubscription(vs, subscription_id) IN
    CASE event_type = "BILLING.SUBSCRIPTION.ACTIVATED" /\ v # 0 ->
            [vs EXCEPT ![v].subscription_status = "active"]
      [] event_type = "BILLING.SUBSCRIPTION.CANCELLED" /\ v # 0 ->
            [j \in 1..(Len(vs) - 1) |-> IF j < v THEN vs[j] ELSE vs[j + 1]]
      [] event_type = "BILLING.SUBSCRIPTION.SUSPENDED" /\ v # 0 ->
            [vs EXCEPT ![v].subscription_status = "past_due"]
      [] OTHER -> vs

\* paypal_webhook whose activation switches the Venue on again.
PaypalDispatch_activation_reactivates(vs, event_type, subscription_id) ==
    LET v == ByPaypalSubscription(vs, subscription_id) IN
    CASE event_type = "BILLING.SUBSCRIPTION.ACTIVATED" /\ v # 0 ->
            [vs EXCEPT ![v].subscription_status = "active", ![v].active = TRUE]
      [] event_type = "BILLING.SUBSCRIPTION.CANCELLED" /\ v # 0 ->
            [vs EXCEPT ![v].subscription_status = "canceled", ![v].active = FALSE]
      [] event_type = "BILLING.SUBSCRIPTION.SUSPENDED" /\ v # 0 ->
            [vs EXCEPT ![v].subscription_status = "past_due"]
      [] OTHER -> vs

\* The branch of paypal_webhook for an event type: the table after it.
PaypalDispatch(vs, event_type, subscription_id) ==
    LET v == ByPaypalSubscription(vs, subscription_id) IN
    CASE event_type = "BILLING.SUBSCRIPTION.ACTIVATED" /\ v # 0 ->
            [vs EXCEPT ![v].subscription_status = "active"]
      [] event_type = "BILLING.SUBSCRIPTION.CANCELLED" /\ v # 0 ->
            [vs EXCEPT ![v].subscription_status = "canceled", ![v].active = FALSE]
      [] event_type = "BILLING.SUBSCRIPTION.SUSPENDED" /\ v # 0 ->
            [vs EXCEPT ![v].subscription_status = "past_due"]
      [] OTHER -> vs

\* POST /webhook/paypal; resource.get('id') is None when the resource has none.
paypal_webhook ==
    /\ requests < MaxRequests
    /\ \E event_type \in PaypalTypes, subscription_id \in PaypalIds \cup {None} :
        /\ requests' = requests + 1
        /\ before' = venues
        /\ session_before' = session
        /\ venues' = PaypalDispatch(venues, event_type, subscription_id)
        /\ session' = session
        /\ last' = Logged("paypal_webhook", None, event_type, subscription_id, None,
                          200, "received", 0)
        /\ UNCHANGED <<files, workers>>
    /\ UNCHANGED <<leads, welcomes>>

\* ------------------------------------------------------- admin endpoints
\* request.headers.get('X-Admin-Key') against app.secret_key.
AdminKeys == {"secret", "wrong"}

\* data.get('payment_provider') of an update request (None: not given, the
\* endpoint's default applies).
ProviderInputs == {"stripe", None}

\* The body of admin_create_venue: the table after the request and the
\* response.
AdminCreateVenue(vs, key, data) ==
    LET name == IF data.name = None THEN "New Venue" ELSE data.name
        email == Lower(Strip(Or(data.email, "")))
        existing == ByLowerEmail(vs, email)
    IN  IF key # "secret"
        THEN [venues |-> vs, code |-> 401, body |-> "Unauthorized", venue_id |-> 0]
        ELSE IF email = ""
        THEN [venues |-> vs, code |-> 400, body |-> "Email required", venue_id |-> 0]
        ELSE IF existing # 0
        THEN [venues |-> vs, code |-> 200, body |-> "exists", venue_id |-> existing]
        ELSE [venues |-> Append(vs, NewVenue(name, email, "manual", None, None, None,
                                             "trialing")),
              code |-> 200, body |-> "created", venue_id |-> Len(vs) + 1]

\* The body of admin_update_venue_payment: the table after the request and
\* the response.
AdminUpdateVenuePayment(vs, key, data) ==
    LET email == Lower(Strip(Or(data.email, "")))
        payment_provider == IF data.payment_provider = None THEN "paypal"
                            ELSE data.payment_provider
        venue == ByLowerEmail(vs, email)
    IN  IF key # "secret"
        THEN [venues |-> vs, code |-> 401, body |-> "Unauthorized", venue_id |-> 0]
        ELSE IF email = ""
        THEN [venues |-> vs, code |-> 400, body |-> "Email required", venue_id |-> 0]
        ELSE IF venue = 0
        THEN [venues |-> vs, code |-> 404, body |-> "Venue not found", venue_id |-> 0]
        ELSE [venues |->
                IF data.paypal_subscription_id # None
                THEN [vs EXCEPT ![venue].payment_provider = payment_provider,
                                ![venue].paypal_subscription_id =
                                    data.paypal_subscription_id]
                ELSE [vs EXCEPT ![venue].payment_provider = payment_provider],
              code |-> 200, body |-> "updated", venue_id |-> venue]

\* The admin requests delivered; one without the key is described by the key
\* alone. A creation leaves the name to the endpoint's default.
AdminCreateCalls ==
    {x \in [key : AdminKeys, email : PaypalEmails, name : {None}] :
        x.key # "secret" => x.email = "c@d.com"}
AdminUpdateCalls ==
    {x \in [key : AdminKeys, email : PaypalEmails, payment_provider : ProviderInputs,
            paypal_subscription_id : PaypalIds \cup {None}] :
        x.key # "secret" =>
            /\ x.email = "c@d.com" /\ x.payment_provider = None
            /\ x.paypal_subscription_id = "I-1"}

\* POST /api/admin/create-venue
admin_create_venue ==
    /\ requests < MaxRequests
    /\ \E x \in AdminCreateCalls :
        LET r == AdminCreateVenue(venues, x.key, x) IN
        /\ Len(r.venues) <= MaxVenues
        /\ requests' = requests + 1
        /\ before' = venues
        /\ session_before' = session
        /\ venues' = r.venues
        /\ session' = session
        /\ last' = Logged("admin_create_venue", x.key, None, None,
                          Lower(Strip(Or(x.email, ""))), r.code, r.body, r.venue_id)
        /\ files' = FilesOf(r.venues)
        /\ UNCHANGED workers
    /\ UNCHANGED <<leads, welcomes>>

\* POST /api/admin/update-venue-payment
admin_update_venue_payment ==
    /\ requests < MaxRequests
    /\ \E x \in AdminUpdateCalls :
        LET r == AdminUpdateVenuePayment(venues, x.key, x) IN
        /\ requests' = requests + 1
        /\ before' = venues
        /\ session_before' = session
        /\ venues' = r.venues
        /\ session' = session
        /\ last' = Logged("admin_update_venue_payment", x.key, x.payment_provider,
                          x.paypal_subscription_id, Lower(Strip(Or(x.email, ""))),
                          r.code, r.body, r.venue_id)
        /\ UNCHANGED <<files, workers>>
    /\ UNCHANGED <<leads, welcomes>>

\* ------------------------------------------------- concurrent requests
\* The server handles requests in parallel, each in its own database
\* session: a handler reads its Venue with a query, assigns attributes of
\* the object it got and commits; nothing locks the row in between. On
\* commit the session compares each assigned attribute with the value it
\* loaded and writes, in an UPDATE of that row, only the columns whose value
\* differs; an inserted Venue is a new row.
Workers == {"w1", "w2"}

NoRequest == [op |-> "none", type |-> None, id |-> None, arg |-> None, email |-> None]

\* The requests two workers may be handling at once: accepted Stripe events
\* of one customer, PayPal events of one subscription and verified
\* create-subscription calls for it.
RaceRequests ==
    { [op |-> "stripe_webhook", type |-> "checkout.session.completed", id |-> "cus_1",
       arg |-> SubscriptionOf("cus_1"), email |-> "a@b.com"],
      [op |-> "stripe_webhook", type |-> "customer.subscription.updated",
       id |-> SubscriptionOf("cus_1"), arg |-> "active", email |-> None],
      [op |-> "stripe_webhook", type |-> "customer.subscription.deleted",
       id |-> SubscriptionOf("cus_1"), arg |-> None, email |-> None],
      [op |-> "stripe_webhook", type |-> "invoice.payment_failed", id |-> "cus_1",
       arg |-> None, email |-> None] }
    \cup { [op |-> "paypal_webhook", type |-> t, id |-> "I-1", arg |-> None, email |-> None] :
             t \in {"BILLING.SUBSCRIPTION.ACTIVATED", "BILLING.SUBSCRIPTION.CANCELLED",
                    "BILLING.SUBSCRIPTION.SUSPENDED"} }
    \cup { [op |-> "paypal_create_subscription", type |-> "ACTIVE", id |-> "I-1",
            arg |-> None, email |-> e] : e \in {" A@B.com ", "c@d.com"} }

IsCheckout(request) == request.type = "checkout.session.completed"
IsCreate(request) == request.op = "paypal_create_subscription"

\* The first query of a handler: the id of the Venue it returns, 0 for None.
RaceLookup(vs, request) ==
    CASE IsCheckout(request) \/ request.type = "invoice.payment_failed" ->
            ByStripeCustomer(vs, request.id)
      [] request.op = "stripe_webhook" -> ByStripeSubscription(vs, request.id)
      [] OTHER -> ByPaypalSubscription(vs, request.id)

\* The attributes a handler assigns on the Venue it found.
Assigned(request, by_email) ==
    CASE request.type = "customer.subscription.updated" ->
            [subscription_status |-> request.arg]
      [] request.type = "customer.subscription.deleted" ->
            [subscription_status |-> "canceled", active |-> FALSE]
      [] request.type = "invoice.payment_failed" ->
            [subscription_status |-> "past_due"]
      [] request.type = "BILLING.SUBSCRIPTION.ACTIVATED" ->
            [subscription_status |-> "active"]
      [] request.type = "BILLING.SUBSCRIPTION.CANCELLED" ->
            [subscription_status |-> "canceled", active |-> FALSE]
      [] request.type = "BILLING.SUBSCRIPTION.SUSPENDED" ->
            [subscription_status |-> "past_due"]
      [] IsCreate(request) /\ by_email ->
            [paypal_subscription_id |-> request.id, payment_provider |-> "paypal",
             subscription_status |->
                 IF request.type \in {"APPROVAL_PENDING", "ACTIVE"}
                 THEN "trialing" ELSE "active"]
      [] OTHER -> <<>>

\* The Venue a handler adds when its lookups found none.
Inserted(request) ==
    IF IsCheckout(request)
    THEN NewVenue("Cafe", request.email, "stripe", request.id, request.arg, None,
                  IF request.arg # None THEN "trialing" ELSE "active")
    ELSE NewVenue("New Venue", Lower(Strip(request.email)), "paypal", None, None,
                  request.id, "trialing")

\* A commit that writes the row as the handler holds it, every column.
Flush_whole_row(vs, i, loaded, assigned) ==
    [vs EXCEPT ![i] = [col \in DOMAIN loaded |->
                          IF col \in DOMAIN assigned THEN assigned[col] ELSE loaded[col]]]

\* A commit that writes every assigned column, changed or not.
Flush_every_assignment(vs, i, loaded, assigned) ==
    [vs EXCEPT ![i] = [col \in DOMAIN vs[i] |->
                          IF col \in DOMAIN assigned THEN assigned[col] ELSE vs[i][col]]]

\* db.session.commit() after assignments on row i, loaded as `loaded`: the
\* UPDATE sets the assigned columns whose value differs from the loaded one.
Flush(vs, i, loaded, assigned) ==
    [vs EXCEPT ![i] = [col \in DOMAIN vs[i] |->
                          IF col \in DOMAIN assigned /\ assigned[col] # loaded[col]
                          THEN assigned[col] ELSE vs[i][col]]]

\* A worker with no request.
Idle == [pc |-> "idle", request |-> NoRequest, found |-> 0, by_email |-> FALSE,
         loaded |-> <<>>]

\* A worker takes a request.
receive(w) ==
    /\ workers[w].pc = "idle"
    /\ \E request \in RaceRequests :
        workers' = [workers EXCEPT ![w] = [Idle EXCEPT !.pc = "lookup",
                                                       !.request = request]]
    /\ requests' = requests + 1
    /\ UNCHANGED <<venues, session, last, before, session_before, files>>
    /\ UNCHANGED <<leads, welcomes>>

\* The handler's first query: by stripe_customer_id, stripe_subscription_id
\* or paypal_subscription_id.
lookup(w) ==
    LET request == workers[w].request
        found == RaceLookup(venues, request)
    IN  /\ workers[w].pc = "lookup"
        /\ workers' = [workers EXCEPT
                ![w].pc = IF IsCreate(request) /\ found = 0
                          THEN "lookup_email" ELSE "commit",
                ![w].found = found,
                ![w].loaded = IF found # 0 THEN venues[found] ELSE <<>>]
        /\ UNCHANGED <<venues, session, last, before, session_before, requests, files>>
        /\ UNCHANGED <<leads, welcomes>>

\* The second query of paypal_create_subscription: by lowercased email.
lookup_email(w) ==
    LET request == workers[w].request
        found == ByLowerEmail(venues, Lower(Strip(request.email)))
    IN  /\ workers[w].pc = "lookup_email"
        /\ workers' = [workers EXCEPT
                ![w].pc = "commit",
                ![w].found = found,
                ![w].by_email = found # 0,
                ![w].loaded = IF found # 0 THEN venues[found] ELSE <<>>]
        /\ UNCHANGED <<venues, session, last, before, session_before, requests, files>>
        /\ UNCHANGED <<leads, welcomes>>

\* The handler's assignments or its insert, committed; then the response.
commit(w) ==
    LET request == workers[w].request
        found == workers[w].found
        inserts == found = 0 /\ (IsCheckout(request) \/ IsCreate(request))
        after == IF inserts THEN Append(venues, Inserted(request))
                 ELSE IF found # 0
                 THEN Flush(venues, found, workers[w].loaded,
                            Assigned(request, workers[w].by_email))
                 ELSE venues
        venue_id == IF ~IsCreate(request) THEN 0
                    ELSE IF inserts THEN Len(venues) + 1 ELSE found
    IN  /\ workers[w].pc = "commit"
        /\ Len(after) <= MaxVenues
        /\ venues' = after
        /\ files' = FilesOf(after)
        /\ before' = venues
        /\ session_before' = session
        /\ session' = IF IsCreate(request) THEN venue_id ELSE session
        /\ last' = Logged(request.op, IF IsCreate(request) THEN "verified" ELSE "event",
                          request.type, request.id,
                          IF IsCreate(request) THEN Lower(Strip(request.email))
                          ELSE request.arg,
                          200,
                          IF ~IsCreate(request) THEN "received"
                          ELSE IF inserts THEN "signup_success_paypal" ELSE "dashboard",
                          venue_id)
        /\ workers' = [workers EXCEPT ![w].pc = "done"]
        /\ UNCHANGED requests
        /\ UNCHANGED <<leads, welcomes>>

\* The tables two concurrent requests may find: empty, or with the Venue of
\* the customer or of the subscription, in a state its events lead to.
RaceTables ==
    {<<>>}
    \cup { <<[NewVenue("Cafe", "a@b.com", "stripe", "cus_1", SubscriptionOf("cus_1"),
                       None, status) EXCEPT !.active = active]>> :
             status \in {"trialing", "active", "past_due", "canceled"},
             active \in BOOLEAN }
    \cup { <<[NewVenue("New Venue", "c@d.com", "paypal", None, None, "I-1", x.status)
               EXCEPT !.active = x.active]>> :
             x \in {y \in [status : {"trialing", "active", "past_due", "canceled"},
                           active : BOOLEAN] :
                      y.status = "canceled" => ~y.active} }

InitRace ==
    /\ venues \in RaceTables
    /\ files = [i \in 1..Len(venues) |-> NoFiles]
    /\ before = venues
    /\ session = 0
    /\ session_before = 0
    /\ requests = 0
    /\ last = Logged("none", None, None, None, None, 0, None, 0)
    /\ workers = [w \in Workers |-> Idle]
    /\ leads = <<>>
    /\ welcomes = <<>>

\* --------------------------------------------------- menu and logo upload
MAX_MENU_SIZE == 10 * 1024 * 1024
MAX_LOGO_SIZE == 2 * 1024 * 1024
ALLOWED_MENU_EXTENSIONS == {"pdf", "png", "jpg", "jpeg", "webp", "heic", "heif"}
ALLOWED_LOGO_EXTENSIONS == {"png", "jpg", "jpeg", "webp", "svg", "heic", "heif"}

\* file.filename of the uploaded part (None: the form has no such part).
Filenames ==
    {"menu.pdf", "photo.png", "photo.JPG", "photo.heic", "logo.svg", "menu.exe",
     "menu", "", None}
\* What the first bytes of the file are: the signature of a format
\* detect_image_format knows, or something else.
Magics == {"png", "jpeg", "webp", "pdf", "heic", "other"}
\* len(file_data): a file shorter than the 12 bytes detect_image_format
\* needs, and the lengths around the two ceilings.
FileSizes ==
    {8, MAX_LOGO_SIZE, MAX_LOGO_SIZE + 1, 10000001, MAX_MENU_SIZE, MAX_MENU_SIZE + 1}

\* '.' in filename
HasDot(filename) == filename \notin {"menu", "", None}
\* filename.rsplit('.', 1)[1].lower()
Ext(filename) ==
    CASE filename = "menu.pdf" -> "pdf"
      [] filename = "photo.png" -> "png"
      [] filename = "photo.JPG" -> "jpg"
      [] filename = "photo.heic" -> "heic"
      [] filename = "logo.svg" -> "svg"
      [] filename = "menu.exe" -> "exe"
      [] OTHER -> ""
\* filename.rsplit('.', 1)[0] + '.jpg'
JpgName(filename) ==
    CASE filename \in {"photo.png", "photo.JPG", "photo.heic"} -> "photo.jpg"
      [] filename = "menu.pdf" -> "menu.jpg"
      [] filename = "logo.svg" -> "logo.jpg"
      [] filename = "menu.exe" -> "menu.jpg"
      [] OTHER -> filename

allowed_menu_file(filename) ==
    HasDot(filename) /\ Ext(filename) \in ALLOWED_MENU_EXTENSIONS
allowed_logo_file(filename) ==
    HasDot(filename) /\ Ext(filename) \in ALLOWED_LOGO_EXTENSIONS

\* detect_image_format that looks at files of any length.
detect_image_format_any_length(file_data) ==
    IF file_data.magic \in {"png", "jpeg", "webp", "pdf", "heic"}
    THEN file_data.magic
    ELSE None

detect_image_format(file_data) ==
    IF file_data.size < 12 THEN None
    ELSE IF file_data.magic \in {"png", "jpeg", "webp", "pdf", "heic"}
    THEN file_data.magic
    ELSE None

\* The JPEG convert_heic_to_jpeg returns when it returns one.
Jpeg(file_data) == [magic |-> "jpeg", size |-> file_data.size]

\* dict.get(key): None for a key the dict does not have.
Get(dict, key) == IF key \in DOMAIN dict THEN dict[key] ELSE None

MenuContentTypes ==
    [pdf |-> "application/pdf", png |-> "image/png", jpeg |-> "image/jpeg",
     jpg |-> "image/jpeg", webp |-> "image/webp"]
LogoContentTypes ==
    [png |-> "image/png", jpg |-> "image/jpeg", jpeg |-> "image/jpeg",
     webp |-> "image/webp", svg |-> "image/svg+xml"]

\* The steps the two upload routes share, from the extension check on: the
\* file to store, or the error flashed. `conversion` is what
\* convert_heic_to_jpeg does with the data.
Accept(file, conversion, allowed, max_size, content_types, default) ==
    LET actual_format == detect_image_format(file.data)
        ext == IF HasDot(file.filename) THEN Ext(file.filename) ELSE ""
        heic == actual_format = "heic" \/ ext \in {"heic", "heif"}
        stored_format == IF heic THEN "jpeg" ELSE actual_format
    IN  IF file.filename = None \/ file.filename = ""
        THEN [ok |-> FALSE, flash |-> "No file selected"]
        ELSE IF ~allowed
        THEN [ok |-> FALSE, flash |-> "Invalid file type"]
        ELSE IF file.data.size > max_size
        THEN [ok |-> FALSE, flash |-> "File too large"]
        ELSE IF heic /\ conversion # "converted"
        THEN [ok |-> FALSE, flash |-> "Could not convert HEIC image"]
        ELSE [ok |-> TRUE, flash |-> "uploaded",
              data |-> IF heic THEN Jpeg(file.data) ELSE file.data,
              filename |-> IF heic THEN JpgName(file.filename) ELSE file.filename,
              content_type |->
                  Or(Get(content_types, stored_format),
                     Or(Get(content_types, ext), default))]

\* upload_menu with the ceiling at ten million bytes.
UploadMenu_decimal_ceiling(row, file, conversion) ==
    LET r == Accept(file, conversion, allowed_menu_file(file.filename), 10000000,
                    MenuContentTypes, "application/octet-stream")
    IN  IF r.ok
        THEN [row |-> [row EXCEPT !.menu_data = r.data, !.menu_filename = r.filename,
                                  !.menu_content_type = r.content_type],
              flash |-> r.flash]
        ELSE [row |-> row, flash |-> r.flash]

\* upload_menu that clears the stored menu when the new file is refused.
UploadMenu_clears_on_error(row, file, conversion) ==
    LET r == Accept(file, conversion, allowed_menu_file(file.filename), MAX_MENU_SIZE,
                    MenuContentTypes, "application/octet-stream")
    IN  IF r.ok
        THEN [row |-> [row EXCEPT !.menu_data = r.data, !.menu_filename = r.filename,
                                  !.menu_content_type = r.content_type],
              flash |-> r.flash]
        ELSE [row |-> [row EXCEPT !.menu_data = NoData, !.menu_filename = None,
                                  !.menu_content_type = None],
              flash |-> r.flash]

\* upload_menu: the Venue's file columns after the request and the message
\* flashed.
UploadMenu(row, file, conversion) ==
    LET r == Accept(file, conversion, allowed_menu_file(file.filename), MAX_MENU_SIZE,
                    MenuContentTypes, "application/octet-stream")
    IN  IF r.ok
        THEN [row |-> [row EXCEPT !.menu_data = r.data, !.menu_filename = r.filename,
                                  !.menu_content_type = r.content_type],
              flash |-> r.flash]
        ELSE [row |-> row, flash |-> r.flash]

\* upload_logo: the Venue's file columns after the request and the message
\* flashed.
UploadLogo(row, file, conversion) ==
    LET r == Accept(file, conversion, allowed_logo_file(file.filename), MAX_LOGO_SIZE,
                    LogoContentTypes, "image/png")
    IN  IF r.ok
        THEN [row |-> [row EXCEPT !.logo_data = r.data, !.logo_filename = r.filename,
                                  !.logo_content_type = r.content_type],
              flash |-> r.flash]
        ELSE [row |-> row, flash |-> r.flash]

\* The uploads sent. A file of another length than two megabytes is a JPEG
\* named photo.png; a part whose name is refused carries a small PNG. Pillow
\* can return a JPEG only for an image it decodes, and is only asked to for
\* a file that is HEIC by its bytes or by its name.
Uploads ==
    {x \in [filename : Filenames, data : [magic : Magics, size : FileSizes],
            conversion : {"converted", "failed"}] :
        /\ x.data.size # MAX_LOGO_SIZE =>
              x.filename = "photo.png" /\ x.data.magic = "jpeg"
        /\ x.filename \in {"menu.exe", "menu", "", None} => x.data.magic = "png"
        /\ x.conversion = "converted" =>
              /\ x.data.magic \in {"heic", "png", "jpeg", "webp"}
              /\ x.data.size >= 12
              /\ x.data.magic = "heic" \/ x.filename = "photo.heic"}

\* The log entry of an upload.
UploadLogged(op, x, flash) ==
    Logged(op, x.conversion, x.data.magic, x.filename, x.data.size, 302, flash, session)

\* POST /dashboard/menu/upload; venue_required sends a visitor who is not
\* logged in to the login page.
upload_menu ==
    /\ requests < MaxRequests
    /\ \E x \in Uploads :
        LET r == UploadMenu(files[session], x, x.conversion) IN
        /\ requests' = requests + 1
        /\ IF session = 0
           THEN /\ files' = files
                /\ last' = UploadLogged("upload_menu", x, "Please log in to continue")
           ELSE /\ files' = [files EXCEPT ![session] = r.row]
                /\ last' = UploadLogged("upload_menu", x, r.flash)
        /\ UNCHANGED <<venues, session, before, session_before, workers>>
    /\ UNCHANGED <<leads, welcomes>>

\* POST /dashboard/logo/upload
upload_logo ==
    /\ requests < MaxRequests
    /\ \E x \in Uploads :
        LET r == UploadLogo(files[session], x, x.conversion) IN
        /\ requests' = requests + 1
        /\ IF session = 0
           THEN /\ files' = files
                /\ last' = UploadLogged("upload_logo", x, "Please log in to continue")
           ELSE /\ files' = [files EXCEPT ![session] = r.row]
                /\ last' = UploadLogged("upload_logo", x, r.flash)
        /\ UNCHANGED <<venues, session, before, session_before, workers>>
    /\ UNCHANGED <<leads, welcomes>>

\* POST /dashboard/menu/delete
delete_menu ==
    /\ requests < MaxRequests
    /\ session # 0
    /\ requests' = requests + 1
    /\ files' = [files EXCEPT ![session].menu_data = NoData,
                              ![session].menu_filename = None,
                              ![session].menu_content_type = None]
    /\ last' = Logged("delete_menu", None, None, None, 0, 302, "Menu deleted.", session)
    /\ UNCHANGED <<venues, session, before, session_before, workers>>
    /\ UNCHANGED <<leads, welcomes>>

\* POST /dashboard/logo/delete
delete_logo ==
    /\ requests < MaxRequests
    /\ session # 0
    /\ requests' = requests + 1
    /\ files' = [files EXCEPT ![session].logo_data = NoData,
                              ![session].logo_filename = None,
                              ![session].logo_content_type = None]
    /\ last' = Logged("delete_logo", None, None, None, 0, 302, "Logo deleted.", session)
    /\ UNCHANGED <<venues, session, before, session_before, workers>>
    /\ UNCHANGED <<leads, welcomes>>

\* fix_heic_menu: converts a stored menu that is still HEIC.
FixHeicMenu(row, conversion) ==
    IF ~(row.menu_data # NoData /\ row.menu_data.size > 0)
    THEN [row |-> row, flash |-> "No menu to fix."]
    ELSE IF detect_image_format(row.menu_data) # "heic"
    THEN [row |-> row, flash |-> "Menu is not HEIC format, no conversion needed."]
    ELSE IF conversion = "converted"
    THEN [row |-> [row EXCEPT !.menu_data = Jpeg(row.menu_data),
                              !.menu_filename =
                                  IF row.menu_filename # None /\ row.menu_filename # ""
                                  THEN JpgName(row.menu_filename)
                                  ELSE "menu.jpg",
                              !.menu_content_type = "image/jpeg"],
          flash |-> "Menu converted from HEIC to JPEG!"]
    ELSE [row |-> row, flash |-> "Could not convert HEIC. Please re-upload as JPG."]

\* POST /dashboard/menu/fix-heic
fix_heic_menu ==
    /\ requests < MaxRequests
    /\ session # 0
    /\ \E conversion \in {"converted", "failed"} :
        LET r == FixHeicMenu(files[session], conversion) IN
        /\ requests' = requests + 1
        /\ files' = [files EXCEPT ![session] = r.row]
        /\ last' = Logged("fix_heic_menu", conversion, None, None, 0, 302, r.flash, session)
    /\ UNCHANGED <<venues, session, before, session_before, workers>>
    /\ UNCHANGED <<leads, welcomes>>

\* A Venue that signed up by Stripe checkout, its owner logged in or not.
InitUpload ==
    /\ venues = <<NewVenue("Cafe", "a@b.com", "stripe", "cus_1", SubscriptionOf("cus_1"),
                           None, "trialing")>>
    /\ files = <<NoFiles>>
    /\ before = venues
    /\ session \in {0, 1}
    /\ session_before = session
    /\ requests = 0
    /\ last = Logged("none", None, None, None, None, 0, None, 0)
    /\ workers = <<>>
    /\ leads = <<>>
    /\ welcomes = <<>>

\* ------------------------------------------------------------ lead capture
\* request.form of a submission; a field the form leaves out reads ''.
Phones == {"555-0100", "  ", ""}
LeadEmails == {" x@y.com ", "  ", ""}
LeadNames == {"Ann", ""}
Forms == [phone : Phones, email : LeadEmails, name : LeadNames]

\* Lead(...) with the column defaults of the model class.
NewLead(venue_id, phone, email, name) ==
    [venue_id |-> venue_id, phone |-> phone, email |-> email, name |-> name,
     source |-> "qr"]

\* Venue.query.filter_by(slug=slug, active=True).first(): a Venue's slug is
\* unique and never reassigned, so it stands for the Venue's id here; a
\* slug that no Venue has is an id beyond the table.
BySlugActive(vs, slug) == First({i \in Ids(vs) : i = slug /\ vs[i].active})

\* capture_submit that looks the Venue up by slug alone.
CaptureSubmit_ignores_active(vs, ls, slug, form) ==
    LET v == First({i \in Ids(vs) : i = slug})
        phone == Strip(form.phone)
        email == Strip(form.email)
        name == Strip(form.name)
    IN  IF v = 0
        THEN [leads |-> ls, code |-> 404, body |-> "Not Found", venue_id |-> 0]
        ELSE IF vs[v].subscription_status \notin {"active", "trialing"}
        THEN [leads |-> ls, code |-> 402, body |-> "Venue subscription inactive",
              venue_id |-> v]
        ELSE IF phone = "" /\ email = ""
        THEN [leads |-> ls, code |-> 400, body |-> "Phone or email required",
              venue_id |-> v]
        ELSE [leads |-> Append(ls, NewLead(v, Or(phone, None), Or(email, None),
                                           Or(name, None))),
              code |-> 200, body |-> "success", venue_id |-> v]

\* capture_submit that does not strip the fields of the form.
CaptureSubmit_unstripped(vs, ls, slug, form) ==
    LET v == BySlugActive(vs, slug)
        phone == form.phone
        email == form.email
        name == form.name
    IN  IF v = 0
        THEN [leads |-> ls, code |-> 404, body |-> "Not Found", venue_id |-> 0]
        ELSE IF vs[v].subscription_status \notin {"active", "trialing"}
        THEN [leads |-> ls, code |-> 402, body |-> "Venue subscription inactive",
              venue_id |-> v]
        ELSE IF phone = "" /\ email = ""
        THEN [leads |-> ls, code |-> 400, body |-> "Phone or email required",
              venue_id |-> v]
        ELSE [leads |-> Append(ls, NewLead(v, Or(phone, None), Or(email, None),
                                           Or(name, None))),
              code |-> 200, body |-> "success", venue_id |-> v]

\* The body of capture_submit: the leads table after the request and the
\* response. send_lead_notification runs after the commit and its failure
\* is caught and logged.
CaptureSubmit(vs, ls, slug, form) ==
    LET v == BySlugActive(vs, slug)
        phone == Strip(form.phone)
        email == Strip(form.email)
        name == Strip(form.name)
    IN  IF v = 0
        THEN [leads |-> ls, code |-> 404, body |-> "Not Found", venue_id |-> 0]
        ELSE IF vs[v].subscription_status \notin {"active", "trialing"}
        THEN [leads |-> ls, code |-> 402, body |-> "Venue subscription inactive",
              venue_id |-> v]
        ELSE IF phone = "" /\ email = ""
        THEN [leads |-> ls, code |-> 400, body |-> "Phone or email required",
              venue_id |-> v]
        ELSE [leads |-> Append(ls, NewLead(v, Or(phone, None), Or(email, None),
                                           Or(name, None))),
              code |-> 200, body |-> "success", venue_id |-> v]

\* POST /c/<slug>/submit
capture_submit ==
    /\ requests < MaxRequests
    /\ \E slug \in 1..(Len(venues) + 1), form \in Forms :
        LET r == CaptureSubmit(venues, leads, slug, form) IN
        /\ requests' = requests + 1
        /\ leads' = r.leads
        /\ before' = venues
        /\ session_before' = session
        /\ last' = Logged("capture_submit", None, form.phone, form.email, slug,
                          r.code, r.body, r.venue_id)
    /\ UNCHANGED <<venues, session, files, workers, welcomes>>

\* Two Venues after their signup, one by Stripe checkout and one by PayPal.
InitCapture ==
    /\ venues = <<NewVenue("Cafe", "a@b.com", "stripe", "cus_1", SubscriptionOf("cus_1"),
                           None, "trialing"),
                  NewVenue("Cafe", "c@d.com", "paypal", None, None, "I-1", "trialing")>>
    /\ files = <<NoFiles, NoFiles>>
    /\ before = venues
    /\ session = 0
    /\ session_before = 0
    /\ requests = 0
    /\ last = Logged("none", None, None, None, None, 0, None, 0)
    /\ workers = <<>>
    /\ leads = <<>>
    /\ welcomes = <<>>

\* ------------------------------------------------- welcome notification
\* What mail.send does inside send_welcome_email: it returns, or it raises
\* and the handler's except clause logs the error.
MailOutcomes == {"sent", "failed"}

\* The Venue handle_checkout_completed calls send_welcome_email for, after
\* the commit of its insert: none when the customer has a Venue (0).
CheckoutWelcome(vs, ev) ==
    IF ev.type = "checkout.session.completed"
       /\ ByStripeCustomer(vs, ev.object.customer) = 0
    THEN Len(vs) + 1
    ELSE 0

\* paypal_create_subscription that also welcomes the Venue it attaches to.
CreateWelcome_on_attach(vs, req, sub_data) ==
    IF ByPaypalSubscription(vs, req.subscription_id) # 0
    THEN 0
    ELSE IF ByLowerEmail(vs, EmailToUse(req.email, sub_data)) # 0
    THEN ByLowerEmail(vs, EmailToUse(req.email, sub_data))
    ELSE Len(vs) + 1

\* The Venue a verified paypal_create_subscription calls send_welcome_email
\* for, after the commit of its insert: none when it returns from the
\* subscription or the email branch (0).
CreateWelcome(vs, req, sub_data) ==
    IF ByPaypalSubscription(vs, req.subscription_id) # 0
    THEN 0
    ELSE IF ByLowerEmail(vs, EmailToUse(req.email, sub_data)) # 0
    THEN 0
    ELSE Len(vs) + 1

\* The log of send_welcome_email calls after a request that called it for
\* venue v (0: not called).
Welcomed(v, mail) ==
    IF v = 0 THEN welcomes ELSE Append(welcomes, [venue_id |-> v, outcome |-> mail])

\* The checkout events delivered: each customer's session with its
\* subscription.
SignupEvents ==
    {ev \in StripeEvents :
        /\ ev.type = "checkout.session.completed"
        /\ ev.object.subscription = SubscriptionOf(ev.object.customer)}

\* The create-subscription calls PayPal verifies, for an active
\* subscription and without a venue name.
SignupCalls ==
    {x \in CreateCalls :
        /\ x.outcome = "verified"
        /\ x.req.venue_name = None
        /\ x.sub_data.status = "ACTIVE"}

\* POST /webhook/stripe with a checkout event, and what becomes of the
\* welcome email: the Venue is committed before send_welcome_email runs and
\* the handler catches what it raises, so the table is the same either way.
stripe_webhook_welcome ==
    /\ requests < MaxRequests
    /\ \E ev \in SignupEvents :
        LET r == StripeWebhook(venues, "event", ev)
            v == CheckoutWelcome(venues, ev)
        IN  \E mail \in IF v = 0 THEN {None} ELSE MailOutcomes :
            /\ Len(r.venues) <= MaxVenues
            /\ requests' = requests + 1
            /\ venues' = r.venues
            /\ welcomes' = Welcomed(v, mail)
            /\ session' = session
            /\ before' = venues
            /\ session_before' = session
            /\ last' = Logged("stripe_webhook", "event", ev.type, StripeEventId(ev),
                              StripeEventArg(ev), r.code, r.body, 0)
            /\ files' = FilesOf(r.venues)
    /\ UNCHANGED <<workers, leads>>

\* POST /api/paypal/create-subscription, verified, and what becomes of the
\* welcome email.
paypal_create_subscription_welcome ==
    /\ requests < MaxRequests
    /\ \E x \in SignupCalls :
        LET r == CreateSubscription(venues, session, x.req, x.outcome, x.sub_data)
            v == CreateWelcome(venues, x.req, x.sub_data)
        IN  \E mail \in IF v = 0 THEN {None} ELSE MailOutcomes :
            /\ Len(r.venues) <= MaxVenues
            /\ requests' = requests + 1
            /\ before' = venues
            /\ session_before' = session
            /\ venues' = r.venues
            /\ welcomes' = Welcomed(v, mail)
            /\ session' = r.session
            /\ last' = Logged("paypal_create_subscription", x.outcome, x.sub_data.status,
                              x.req.subscription_id, EmailToUse(x.req.email, x.sub_data),
                              r.code, r.body, r.venue_id)
            /\ files' = FilesOf(r.venues)
    /\ UNCHANGED <<workers, leads>>

Init ==
    /\ venues = <<>>
    /\ session = 0
    /\ before = <<>>
    /\ session_before = 0
    /\ requests = 0
    /\ last = Logged("none", None, None, None, None, 0, None, 0)
    /\ files = <<>>
    /\ workers = <<>>
    /\ leads = <<>>
    /\ welcomes = <<>>

Next ==
    \/ stripe_webhook
    \/ paypal_create_subscription
    \/ paypal_webhook

Spec == Init /\ [][Next]_vars

\* The provider-facing routes together with the two admin endpoints.
NextAdmin ==
    \/ stripe_webhook
    \/ paypal_create_subscription
    \/ paypal_webhook
    \/ admin_create_venue
    \/ admin_update_venue_payment

SpecAdmin == Init /\ [][NextAdmin]_vars

\* Two workers, each handling one request, their queries and commits
\* interleaved in every order.
NextRace ==
    \E w \in Workers :
        \/ receive(w)
        \/ lookup(w)
        \/ lookup_email(w)
        \/ commit(w)

SpecRace == InitRace /\ [][NextRace]_vars

\* The upload and delete routes of the dashboard.
NextUpload ==
    \/ upload_menu
    \/ upload_logo
    \/ delete_menu
    \/ delete_logo
    \/ fix_heic_menu

SpecUpload == InitUpload /\ [][NextUpload]_vars

\* The capture form and the webhooks that change what it answers.
NextCapture ==
    \/ capture_submit
    \/ stripe_webhook
    \/ paypal_webhook

SpecCapture == InitCapture /\ [][NextCapture]_vars

\* The two signup flows with their welcome emails.
NextWelcome ==
    \/ stripe_webhook_welcome
    \/ paypal_create_subscription_welcome

SpecWelcome == Init /\ [][NextWelcome]_vars

\* ================================================================ claims
\* The ids of the Venues of a table whose column holds a value.
WithStripeCustomer(vs, c) == {i \in Ids(vs) : vs[i].stripe_customer_id = c}
WithStripeSubscription(vs, x) == {i \in Ids(vs) : vs[i].stripe_subscription_id = x}
WithPaypalSubscription(vs, p) == {i \in Ids(vs) : vs[i].paypal_subscription_id = p}
WithLowerEmail(vs, e) == {i \in Ids(vs) : Lower(vs[i].email) = e}

\* The last request was a Stripe event of this type, accepted by construct_event.
StripeEvent(type) ==
    last.op = "stripe_webhook" /\ last.outcome = "event" /\ last.type = type
\* The last request was a PayPal webhook event of this type.
PaypalEvent(type) == last.op = "paypal_webhook" /\ last.type = type
\* The last request was a create-subscription call that PayPal verified.
VerifiedCall == last.op = "paypal_create_subscription" /\ last.outcome = "verified"
\* The last request was a create-subscription call whose verification failed.
FailedVerification ==
    /\ last.op = "paypal_create_subscription"
    /\ last.outcome \in {"token_error", "no_token", "get_error", "non_200", "other_error"}

\* ---------------------------------------------------------------------
\* C1  Stripe checkout idempotence: once a checkout.session.completed event
\* for a customer is handled, exactly one Venue has that stripe_customer_id;
\* a delivery that finds a Venue of that customer (every delivery after the
\* first) creates no Venue and changes no field of any Venue.
CheckoutIdempotent ==
    StripeEvent("checkout.session.completed") =>
        /\ Cardinality(WithStripeCustomer(venues, last.id)) = 1
        /\ WithStripeCustomer(before, last.id) # {} => venues = before

\* A replayed checkout event: the customer's Venue was there before it.
CheckoutReplayed ==
    /\ StripeEvent("checkout.session.completed")
    /\ WithStripeCustomer(before, last.id) # {}
    /\ Len(venues) = 2

PaypalAttachesToStripeVenue ==
    (VerifiedCall /\ WithPaypalSubscription(before, last.id) = {}) =>
        \A i \in Ids(before) :
            (before[i].stripe_customer_id # None /\ Lower(before[i].email) = last.arg) =>
                /\ Len(venues) = Len(before)
                /\ last.venue_id = i
                /\ venues[i].paypal_subscription_id = last.id
                /\ venues[i].payment_provider = "paypal"

\* ---------------------------------------------------------------------
\* C4  Cancellation: right after a customer.subscription.deleted event or a
\* BILLING.SUBSCRIPTION.CANCELLED event is handled, every Venue whose
\* subscription the event names has subscription_status = 'canceled' and
\* active = false.
CancellationInvariant ==
    /\ StripeEvent("customer.subscription.deleted") =>
          \A i \in WithStripeSubscription(before, last.id) :
              venues[i].subscription_status = "canceled" /\ ~venues[i].active
    /\ (PaypalEvent("BILLING.SUBSCRIPTION.CANCELLED") /\ last.id # None) =>
          \A i \in WithPaypalSubscription(before, last.id) :
              venues[i].subscription_status = "canceled" /\ ~venues[i].active

\* A Stripe cancellation of a Venue that was active and not yet canceled.
StripeVenueCanceled ==
    /\ StripeEvent("customer.subscription.deleted")
    /\ \E i \in WithStripeSubscription(before, last.id) :
          /\ before[i].active /\ before[i].subscription_status # "canceled"
          /\ ~venues[i].active

\* ---------------------------------------------------------------------
\* C5  PayPal verification fails closed: when no token is obtained, the
\* lookup answers with a status other than 200, or an outbound call raises,
\* the call creates no Venue, changes no field of any Venue and does not set
\* session['venue_id'].
VerificationFailsClosed ==
    FailedVerification => venues = before /\ session = session_before

\* A failed verification of a request whose email a Venue has, in a session
\* that is logged in.
VerificationFailedOnKnownEmail ==
    /\ FailedVerification
    /\ session_before # 0
    /\ \E i \in Ids(before) : Lower(before[i].email) = "c@d.com"

\* ---------------------------------------------------------------------
\* C6  as claimed: every verification failure (no token, a lookup status
\* other than 200, a network error on either call) is answered with the one
\* service-unavailable response.
VerificationFailureIsUnavailable ==
    (FailedVerification /\ last.outcome # "other_error") =>
        last.code = 503 /\ last.body = "Payment service unavailable"

\* C6  as amended: every verification failure is answered with an error
\* response and no venue_id, but the response depends on the cause: 500
\* 'Payment verification failed' without a token, 400 'Could not verify
\* subscription with PayPal' for a lookup status other than 200, and 503
\* 'Payment service unavailable' only for a network error.
VerificationFailureByCause ==
    (FailedVerification /\ last.outcome # "other_error") =>
        /\ last.code >= 400 /\ last.venue_id = 0
        /\ last.outcome = "no_token" =>
              last.code = 500 /\ last.body = "Payment verification failed"
        /\ last.outcome = "non_200" =>
              last.code = 400 /\ last.body = "Could not verify subscription with PayPal"
        /\ last.outcome \in {"token_error", "get_error"} =>
              last.code = 503 /\ last.body = "Payment service unavailable"

\* A lookup that answered with a status other than 200, with Venues in the
\* table.
LookupRefused ==
    FailedVerification /\ last.outcome = "non_200" /\ Len(venues) = 2

\* ---------------------------------------------------------------------
\* C7  A Stripe webhook request that construct_event refuses is answered
\* with an error before any handler runs: no Venue is created and no Venue
\* changes, whatever event type the payload claims.
RefusedBeforeHandlers ==
    (last.op = "stripe_webhook" /\ last.outcome # "event") =>
        last.code = 400 /\ venues = before

\* A refused request whose payload claims the cancellation of a subscription
\* that a Venue, still active, has.
RefusedCancellation ==
    /\ last.op = "stripe_webhook"
    /\ last.outcome = "SignatureVerificationError"
    /\ last.type = "customer.subscription.deleted"
    /\ \E i \in Ids(venues) :
          venues[i].stripe_subscription_id = "sub_1" /\ venues[i].active

\* ---------------------------------------------------------------------
\* C8  Stale events: a status-changing event that carries a subscription or
\* customer id no Venue has leaves every Venue unchanged, creates none, and
\* is acknowledged with {received: true}.
StaleEventIgnored ==
    /\ ( /\ \/ StripeEvent("customer.subscription.updated")
            \/ StripeEvent("customer.subscription.deleted")
         /\ WithStripeSubscription(before, last.id) = {} )
       => (venues = before /\ last.code = 200 /\ last.body = "received")
    /\ ( /\ StripeEvent("invoice.payment_failed")
         /\ last.id # None
         /\ WithStripeCustomer(before, last.id) = {} )
       => (venues = before /\ last.code = 200 /\ last.body = "received")
    /\ ( /\ \/ PaypalEvent("BILLING.SUBSCRIPTION.ACTIVATED")
            \/ PaypalEvent("BILLING.SUBSCRIPTION.CANCELLED")
            \/ PaypalEvent("BILLING.SUBSCRIPTION.SUSPENDED")
         /\ last.id # None
         /\ WithPaypalSubscription(before, last.id) = {} )
       => (venues = before /\ last.code = 200 /\ last.body = "received")

\* A PayPal activation for a subscription id no Venue has, in a table that
\* holds a Venue with another PayPal subscription.
StaleActivation ==
    /\ PaypalEvent("BILLING.SUBSCRIPTION.ACTIVATED")
    /\ last.id # None
    /\ WithPaypalSubscription(before, last.id) = {}
    /\ \E i \in Ids(before) : before[i].paypal_subscription_id # None

\* ---------------------------------------------------------------------
\* C9  An event of a type the endpoint does not handle (a Stripe type outside
\* the four, a PayPal type outside ACTIVATED, CANCELLED and SUSPENDED,
\* PAYMENT.SALE.COMPLETED included) leaves the table unchanged and is
\* answered with {received: true}.
UnknownTypeIgnored ==
    /\ ( /\ last.op = "stripe_webhook" /\ last.outcome = "event"
         /\ last.type \notin {"checkout.session.completed",
                              "customer.subscription.updated",
                              "customer.subscription.deleted",
                              "invoice.payment_failed"} )
       => (venues = before /\ last.code = 200 /\ last.body = "received")
    /\ ( /\ last.op = "paypal_webhook"
         /\ last.type \notin {"BILLING.SUBSCRIPTION.ACTIVATED",
                              "BILLING.SUBSCRIPTION.CANCELLED",
                              "BILLING.SUBSCRIPTION.SUSPENDED"} )
       => (venues = before /\ last.code = 200 /\ last.body = "received")

\* A Stripe event of an unhandled type about a customer who has a Venue.
UnknownStripeTypeSeen ==
    /\ StripeEvent("customer.created")
    /\ WithStripeCustomer(before, last.id) # {}

\* ---------------------------------------------------------------------
\* C10  Resolution priority: a verified call whose subscription_id a Venue
\* carries returns that Venue's id and changes no Venue, also when another
\* Venue matches the email; a Venue is attached by email only when no Venue
\* has the subscription id, and one is created only when neither match
\* exists.
SubscriptionMatchWins ==
    VerifiedCall =>
        /\ WithPaypalSubscription(before, last.id) # {} =>
              /\ last.venue_id \in WithPaypalSubscription(before, last.id)
              /\ venues = before
        /\ venues # before => WithPaypalSubscription(before, last.id) = {}
        /\ Len(venues) > Len(before) =>
              /\ WithPaypalSubscription(before, last.id) = {}
              /\ WithLowerEmail(before, last.arg) = {}

\* A call whose subscription id one Venue carries and whose email, which is
\* not that Venue's, is another Venue's.
BothMatchesPresent ==
    /\ VerifiedCall
    /\ \E i, j \in Ids(before) :
          /\ i # j
          /\ before[i].paypal_subscription_id = last.id
          /\ Lower(before[i].email) # last.arg
          /\ Lower(before[j].email) = last.arg
          /\ last.venue_id = i


\* The rows the table had before the last request, as they are now.
Kept == SubSeq(venues, 1, Len(before))
\* The last request appended one Venue to the table and changed no other.
OneVenueCreated == Len(venues) = Len(before) + 1 /\ Kept = before
\* The last request was a verified create-subscription call that matched no
\* Venue, neither by subscription id nor by email.
UnmatchedCall ==
    /\ VerifiedCall
    /\ ByPaypalSubscription(before, last.id) = 0
    /\ ByLowerEmail(before, last.arg) = 0
\* The last request was a verified create-subscription call that matched no
\* Venue by subscription id and one by email.
EmailMatchedCall ==
    /\ VerifiedCall
    /\ ByPaypalSubscription(before, last.id) = 0
    /\ ByLowerEmail(before, last.arg) # 0

\* ---------------------------------------------------------------------
\* C11  New-venue path of paypal_create_subscription: a verified call that
\* matches no Venue by subscription id nor by email creates exactly one
\* Venue, with subscription_status 'trialing', payment_provider 'paypal',
\* the given paypal_subscription_id, active true and no Stripe identifier,
\* whatever status PayPal reported.
NewPaypalVenue ==
    UnmatchedCall =>
        /\ OneVenueCreated
        /\ LET v == venues[Len(venues)] IN
            /\ v.subscription_status = "trialing"
            /\ v.payment_provider = "paypal"
            /\ v.paypal_subscription_id = last.id
            /\ v.active = TRUE
            /\ v.stripe_customer_id = None
            /\ v.stripe_subscription_id = None

\* A second Venue was created for a subscription PayPal reported SUSPENDED.
SuspendedSubscriptionCreated ==
    /\ UnmatchedCall
    /\ last.type = "SUSPENDED"
    /\ Len(before) = 1
    /\ Len(venues) = 2

\* ---------------------------------------------------------------------
\* C12  Email-attach path of paypal_create_subscription: the matched Venue's
\* subscription_status becomes 'trialing' when PayPal reports
\* APPROVAL_PENDING or ACTIVE and 'active' for every other reported status,
\* a missing one included, whatever the Venue's status was before.
AttachStatusPolicy ==
    EmailMatchedCall =>
        venues[ByLowerEmail(before, last.arg)].subscription_status =
            IF last.type \in {"APPROVAL_PENDING", "ACTIVE"} THEN "trialing" ELSE "active"

\* A subscription whose status PayPal did not report was attached to a
\* canceled Venue, which is 'active' after it.
AttachedToCanceledVenue ==
    /\ EmailMatchedCall
    /\ last.type = None
    /\ before[ByLowerEmail(before, last.arg)].subscription_status = "canceled"
    /\ venues[ByLowerEmail(before, last.arg)].subscription_status = "active"

\* ---------------------------------------------------------------------
\* C13  A checkout.session.completed event for a customer id no Venue has
\* creates exactly one Venue: subscription_status 'trialing' if the session
\* carries a subscription id and 'active' if not, stripe_customer_id and
\* stripe_subscription_id from the session, active true.
CheckoutCreatesVenue ==
    StripeEvent("checkout.session.completed") /\ ByStripeCustomer(before, last.id) = 0 =>
        /\ OneVenueCreated
        /\ LET v == venues[Len(venues)] IN
            /\ v.subscription_status = IF last.arg # None THEN "trialing" ELSE "active"
            /\ v.stripe_customer_id = last.id
            /\ v.stripe_subscription_id = last.arg
            /\ v.active = TRUE

\* A checkout session without a subscription created a second Venue.
CheckoutWithoutSubscription ==
    /\ StripeEvent("checkout.session.completed")
    /\ ByStripeCustomer(before, last.id) = 0
    /\ last.arg = None
    /\ Len(before) = 1
    /\ Len(venues) = 2
    /\ venues[2].subscription_status = "active"

\* ---------------------------------------------------------------------
\* C14  A customer.subscription.updated event for a subscription id a Venue
\* has sets that Venue's subscription_status to exactly the event's status
\* string, and changes nothing else: not the Venue's active flag, provider
\* ids or payment_provider, and no other Venue.
UpdateStoresStatusVerbatim ==
    StripeEvent("customer.subscription.updated")
        /\ ByStripeSubscription(before, last.id) # 0 =>
        venues = [before EXCEPT
                    ![ByStripeSubscription(before, last.id)].subscription_status = last.arg]

\* A status outside the four documented ones was stored on the second of two
\* Venues.
UndocumentedStatusStored ==
    /\ StripeEvent("customer.subscription.updated")
    /\ last.arg = "incomplete"
    /\ ByStripeSubscription(before, last.id) = 2
    /\ venues[2].subscription_status = "incomplete"

\* ---------------------------------------------------------------------
\* C15  PayPal webhook mapping for a Venue with the event's subscription id:
\* ACTIVATED sets 'active' and SUSPENDED sets 'past_due', each leaving the
\* active flag as it was; CANCELLED sets 'canceled' and active false. No
\* other field and no other Venue is changed.
PaypalWebhookMapping ==
    LET v == ByPaypalSubscription(before, last.id) IN
    /\ PaypalEvent("BILLING.SUBSCRIPTION.ACTIVATED") /\ v # 0 =>
        venues = [before EXCEPT ![v].subscription_status = "active"]
    /\ PaypalEvent("BILLING.SUBSCRIPTION.SUSPENDED") /\ v # 0 =>
        venues = [before EXCEPT ![v].subscription_status = "past_due"]
    /\ PaypalEvent("BILLING.SUBSCRIPTION.CANCELLED") /\ v # 0 =>
        venues = [before EXCEPT ![v].subscription_status = "canceled",
                                ![v].active = FALSE]

\* An activation arrived for a Venue that was switched off: it is 'active'
\* and still switched off.
ActivatedWhileInactive ==
    /\ PaypalEvent("BILLING.SUBSCRIPTION.ACTIVATED")
    /\ last.id # None
    /\ ByPaypalSubscription(before, last.id) # 0
    /\ before[ByPaypalSubscription(before, last.id)].active = FALSE
    /\ venues[ByPaypalSubscription(before, last.id)].subscription_status = "active"
    /\ venues[ByPaypalSubscription(before, last.id)].active = FALSE

\* ---------------------------------------------------------------------
\* C16  An invoice.payment_failed event sets subscription_status 'past_due'
\* on the Venue whose stripe_customer_id equals the invoice's customer,
\* whatever the status was before ('canceled' included), and leaves that
\* Venue's active flag and every other Venue unchanged.
PaymentFailedSetsPastDue ==
    StripeEvent("invoice.payment_failed") /\ ByStripeCustomer(before, last.id) # 0 =>
        venues = [before EXCEPT
                    ![ByStripeCustomer(before, last.id)].subscription_status = "past_due"]

\* A failed payment arrived for a canceled Venue, which is 'past_due' and
\* still switched off.
PaymentFailedAfterCancellation ==
    /\ StripeEvent("invoice.payment_failed")
    /\ last.id # None
    /\ ByStripeCustomer(before, last.id) # 0
    /\ before[ByStripeCustomer(before, last.id)].subscription_status = "canceled"
    /\ venues[ByStripeCustomer(before, last.id)].subscription_status = "past_due"
    /\ venues[ByStripeCustomer(before, last.id)].active = FALSE

\* ---------------------------------------------------------------------
\* C17  Among the reconciliation operations, the Stripe subscription-deleted
\* transition is the only one that changes a Venue's active flag: every
\* other operation leaves the active flag of every Venue as it was.
OnlyStripeDeletionChangesActive ==
    \A i \in Ids(before) :
        venues[i].active # before[i].active =>
            StripeEvent("customer.subscription.deleted")

\* C17, as the code has it: the two cancellations, Stripe's
\* customer.subscription.deleted and PayPal's BILLING.SUBSCRIPTION.CANCELLED,
\* are the only operations that change a Venue's active flag, and they set
\* it to false; every other operation leaves every active flag as it was.
OnlyCancellationsChangeActive ==
    \A i \in Ids(before) :
        venues[i].active # before[i].active =>
            /\ \/ StripeEvent("customer.subscription.deleted")
               \/ PaypalEvent("BILLING.SUBSCRIPTION.CANCELLED")
            /\ venues[i].active = FALSE

\* A PayPal cancellation switched a Venue off.
PaypalCancellationSwitchedOff ==
    /\ PaypalEvent("BILLING.SUBSCRIPTION.CANCELLED")
    /\ \E i \in Ids(before) : before[i].active /\ ~venues[i].active


\* ---------------------------------------------------------------------
\* C18  Email uniqueness: in every state reachable by Stripe checkout
\* completions, PayPal create-or-attach calls and admin venue creations, no
\* two distinct Venues have the same lowercased email.
EmailsUnique ==
    \A i, j \in Ids(venues) :
        i # j => Lower(venues[i].email) # Lower(venues[j].email)

\* ---------------------------------------------------------------------
\* C19  Provider-id uniqueness: in every reachable state no two distinct
\* Venues share the same non-null stripe_customer_id, the same non-null
\* stripe_subscription_id or the same non-null paypal_subscription_id.
ProviderIdsUnique ==
    \A i, j \in Ids(venues) :
        i # j =>
            /\ venues[i].stripe_customer_id # None =>
                venues[i].stripe_customer_id # venues[j].stripe_customer_id
            /\ venues[i].stripe_subscription_id # None =>
                venues[i].stripe_subscription_id # venues[j].stripe_subscription_id
            /\ venues[i].paypal_subscription_id # None =>
                venues[i].paypal_subscription_id # venues[j].paypal_subscription_id

\* The Venue carries a Stripe identifier.
HasStripeId(v) == v.stripe_customer_id # None \/ v.stripe_subscription_id # None
\* The Venue carries identifiers of both providers.
HasBothProviders(v) == HasStripeId(v) /\ v.paypal_subscription_id # None
\* The last request was an admin payment update that found its Venue.
PaymentUpdated == last.op = "admin_update_venue_payment" /\ last.body = "updated"

\* ---------------------------------------------------------------------
\* C20  Each Venue has identifiers of at most one provider: in every
\* reachable state no Venue has both a Stripe identifier and a
\* paypal_subscription_id.
OneProviderPerVenue == \A i \in Ids(venues) : ~HasBothProviders(venues[i])

\* C20, as the code has it: a Venue is created with the identifiers of at
\* most one provider and its Stripe identifiers never change afterwards; it
\* comes to carry both exactly when a PayPal subscription id is put on a
\* Venue that has Stripe identifiers, which only the email-attach path of
\* paypal_create_subscription and admin_update_venue_payment do, and both
\* keep the Stripe identifiers.
ProvidersMixOnlyByAttachment ==
    \A i \in Ids(venues) :
        /\ i \notin Ids(before) => ~HasBothProviders(venues[i])
        /\ i \in Ids(before) =>
            /\ venues[i].stripe_customer_id = before[i].stripe_customer_id
            /\ venues[i].stripe_subscription_id = before[i].stripe_subscription_id
            /\ HasBothProviders(venues[i]) /\ ~HasBothProviders(before[i]) =>
                /\ HasStripeId(before[i])
                /\ venues[i].paypal_subscription_id = last.id
                /\ \/ EmailMatchedCall /\ ByLowerEmail(before, last.arg) = i
                   \/ PaymentUpdated /\ last.venue_id = i

\* A PayPal subscription was attached by email to a Venue created by a
\* Stripe checkout: it carries the identifiers of both providers.
PaypalAttachedToStripeCustomer ==
    /\ EmailMatchedCall
    /\ \E i \in Ids(before) :
        /\ ByLowerEmail(before, last.arg) = i
        /\ before[i].stripe_customer_id # None
        /\ before[i].paypal_subscription_id = None
        /\ HasBothProviders(venues[i])
        /\ venues[i].payment_provider = "paypal"


\* ---------------------------------------------------------------------
\* C21  Status domain: in every state reachable through the webhook and
\* signup operations, every Venue's subscription_status is one of trialing,
\* active, past_due, canceled.
StatusDomain ==
    \A i \in Ids(venues) :
        venues[i].subscription_status \in {"trialing", "active", "past_due", "canceled"}

\* ---------------------------------------------------------------------
\* C22  canceled is terminal for the status field: once a Venue's
\* subscription_status is 'canceled', no later event from either provider
\* changes it to another value.
CanceledIsTerminal ==
    \A i \in Ids(before) :
        before[i].subscription_status = "canceled" =>
            venues[i].subscription_status = "canceled"

\* ---------------------------------------------------------------------
\* C23  Venues are never hard-deleted: no operation removes a row, so the
\* set of Venue ids only grows, and a cancellation leaves its Venue in the
\* table with active = false and subscription_status = 'canceled'.
NeverHardDeleted ==
    /\ Len(venues) >= Len(before)
    /\ StripeEvent("customer.subscription.deleted")
            /\ ByStripeSubscription(before, last.id) # 0 =>
        LET v == venues[ByStripeSubscription(before, last.id)] IN
        ~v.active /\ v.subscription_status = "canceled"
    /\ PaypalEvent("BILLING.SUBSCRIPTION.CANCELLED")
            /\ ByPaypalSubscription(before, last.id) # 0 =>
        LET v == venues[ByPaypalSubscription(before, last.id)] IN
        ~v.active /\ v.subscription_status = "canceled"

\* The first of two Venues was cancelled by PayPal: both rows are in the
\* table, the first switched off and 'canceled'.
CancelledVenueKept ==
    /\ PaypalEvent("BILLING.SUBSCRIPTION.CANCELLED")
    /\ last.id # None
    /\ ByPaypalSubscription(before, last.id) = 1
    /\ before[1].active
    /\ Len(before) = 2
    /\ Len(venues) = 2
    /\ ~venues[1].active
    /\ venues[1].subscription_status = "canceled"

\* The Stripe events and the create-subscription calls the log entry of the
\* last request describes; the log does not keep a checkout session's
\* metadata nor a call's venue name.
LastStripeEvents ==
    CASE last.type = "checkout.session.completed" ->
            {[type |-> last.type,
              object |-> [customer |-> last.id, subscription |-> last.arg,
                          venue_name |-> n, email |-> e]] :
                n \in VenueNames, e \in StripeEmails}
      [] last.type = "customer.subscription.updated" ->
            {[type |-> last.type, object |-> [id |-> last.id, status |-> last.arg]]}
      [] last.type = "invoice.payment_failed" ->
            {[type |-> last.type, object |-> [customer |-> last.id]]}
      [] OTHER ->
            {[type |-> last.type, object |-> [id |-> last.id]]}
\* The pairs of a request's email and a subscriber's address that come to
\* one email_to_use.
EmailPairs ==
    [u \in {EmailToUse(e, [email_address |-> a]) :
                e \in PaypalEmails, a \in SubscriberEmails} |->
        {p \in PaypalEmails \X SubscriberEmails :
            EmailToUse(p[1], [email_address |-> p[2]]) = u}]
LastCalls ==
    {[req |-> [subscription_id |-> last.id, email |-> p[1], venue_name |-> n],
      outcome |-> last.outcome,
      sub_data |-> [status |-> last.type, email_address |-> p[2]]] :
        p \in EmailPairs[last.arg], n \in VenueNames \cup {None}}

\* ---------------------------------------------------------------------
\* C24  Per-event idempotence of the end state: for every Stripe event,
\* every PayPal webhook event and every paypal_create_subscription request,
\* handling it twice in immediate succession leaves the venues table as
\* handling it once does: the request handled last, handled again on the
\* table it left, changes nothing.
HandledTwiceAsOnce ==
    /\ last.op = "stripe_webhook" =>
        \A ev \in LastStripeEvents : StripeWebhook(venues, last.outcome, ev).venues = venues
    /\ last.op = "paypal_webhook" =>
        PaypalDispatch(venues, last.type, last.id) = venues
    /\ last.op = "paypal_create_subscription" =>
        \A x \in LastCalls :
            CreateSubscription(venues, session, x.req, x.outcome, x.sub_data).venues = venues

\* A call attached a PayPal subscription to the second of two Venues, one
\* that had another PayPal subscription; the same call again finds the
\* Venue by subscription id.
AttachedThenKnown ==
    /\ EmailMatchedCall
    /\ LastCalls # {}
    /\ ByLowerEmail(before, last.arg) = 2
    /\ before[2].paypal_subscription_id \notin {None, last.id}
    /\ ByPaypalSubscription(venues, last.id) = 2


\* The worker has answered its request.
Done(w) == workers[w].pc = "done"
\* Two workers have answered two deliveries of one checkout event, or two
\* create-subscription calls for one subscription id.
SameDeliveryTwice(w, o) ==
    /\ w # o
    /\ Done(w) /\ Done(o)
    /\ workers[w].request.id = workers[o].request.id
    /\ \/ IsCheckout(workers[w].request) /\ IsCheckout(workers[o].request)
       \/ IsCreate(workers[w].request) /\ IsCreate(workers[o].request)

\* ---------------------------------------------------------------------
\* C25  Duplicate creation under concurrency: when two deliveries of the
\* same checkout.session.completed event, or two paypal_create_subscription
\* requests with the same subscription id, are handled concurrently, their
\* lookups and inserts interleaved in any order, exactly one Venue has that
\* customer / subscription id afterwards.
OneVenuePerConcurrentDelivery ==
    \A w, o \in Workers :
        SameDeliveryTwice(w, o) =>
            /\ IsCheckout(workers[w].request) =>
                Cardinality(WithStripeCustomer(venues, workers[w].request.id)) = 1
            /\ IsCreate(workers[w].request) =>
                Cardinality(WithPaypalSubscription(venues, workers[w].request.id)) = 1

\* Worker w has answered an ACTIVATED event and worker o a SUSPENDED event
\* for the subscription of a Venue both found.
ActivationRace(w, o) ==
    /\ Done(w) /\ Done(o)
    /\ workers[w].request.type = "BILLING.SUBSCRIPTION.ACTIVATED"
    /\ workers[o].request.type = "BILLING.SUBSCRIPTION.SUSPENDED"
    /\ workers[w].found # 0
    /\ workers[o].found = workers[w].found
\* The status the PayPal event handled last assigns.
LastStatus ==
    IF last.type = "BILLING.SUBSCRIPTION.ACTIVATED" THEN "active" ELSE "past_due"
\* The worker that committed last, of the two of an activation race.
LastOf(w, o) == IF workers[w].request.type = last.type THEN w ELSE o

\* ---------------------------------------------------------------------
\* C26  Last-write-wins race: when ACTIVATED and SUSPENDED for the same
\* subscription are handled concurrently, the Venue's final
\* subscription_status is the value of whichever handler commits last, both
\* 'active' and 'past_due' being possible and no other value, and the
\* active flag is unchanged.
LastCommitWins ==
    \A w, o \in Workers :
        ActivationRace(w, o) =>
            LET v == venues[workers[w].found] IN
            /\ v.subscription_status = LastStatus
            /\ v.active = workers[w].loaded.active

\* C26, as the code has it: the final status is the one written last. It is
\* 'active' or 'past_due' and the active flag is unchanged; it is the value
\* of the handler that commits last if that value differs from the status
\* this handler read, and otherwise that commit writes nothing and the
\* status the Venue had just before it stays.
LastWriteWins ==
    \A w, o \in Workers :
        ActivationRace(w, o) =>
            LET i == workers[w].found
                l == LastOf(w, o)
            IN  /\ venues[i].subscription_status \in {"active", "past_due"}
                /\ venues[i].active = workers[w].loaded.active
                /\ venues[i].active = workers[o].loaded.active
                /\ venues[i].subscription_status =
                       IF workers[l].loaded.subscription_status # LastStatus
                       THEN LastStatus
                       ELSE before[i].subscription_status

\* Both handlers read a trialing Venue before either committed; SUSPENDED
\* committed first and ACTIVATED last, and the Venue is 'active'.
ActivationCommittedLast ==
    \E w, o \in Workers :
        /\ ActivationRace(w, o)
        /\ last.type = "BILLING.SUBSCRIPTION.ACTIVATED"
        /\ workers[w].loaded.subscription_status = "trialing"
        /\ workers[o].loaded.subscription_status = "trialing"
        /\ before[workers[w].found].subscription_status = "past_due"
        /\ venues[workers[w].found].subscription_status = "active"

\* The request is a cancellation, Stripe's or PayPal's.
IsCancellation(request) ==
    request.type \in {"customer.subscription.deleted", "BILLING.SUBSCRIPTION.CANCELLED"}
\* The request assigns a status and nothing else.
IsStatusChange(request) ==
    request.type \in {"customer.subscription.updated", "invoice.payment_failed",
                      "BILLING.SUBSCRIPTION.ACTIVATED", "BILLING.SUBSCRIPTION.SUSPENDED"}

\* ---------------------------------------------------------------------
\* C27  No lost update of the active flag: when a cancellation is handled
\* concurrently with another status-changing event for the same Venue,
\* then under every interleaving of their reads and commits the Venue ends
\* with active = false: no commit of the other handler undoes it.
CancellationSticks ==
    \A w \in Workers :
        Done(w) /\ IsCancellation(workers[w].request) /\ workers[w].found # 0 =>
            ~venues[workers[w].found].active

\* A status-changing handler read the Venue switched on, the cancellation
\* committed, and the handler committed its status after it: the Venue has
\* that status and is switched off.
StaleCommitAfterCancellation ==
    \E w, o \in Workers :
        /\ Done(w) /\ Done(o)
        /\ IsCancellation(workers[w].request)
        /\ IsStatusChange(workers[o].request)
        /\ workers[w].found # 0
        /\ workers[o].found = workers[w].found
        /\ workers[o].loaded.active
        /\ last.type = workers[o].request.type
        /\ ~before[workers[w].found].active
        /\ venues[workers[w].found].subscription_status # "canceled"
        /\ ~venues[workers[w].found].active


\* ------------------------------------------------------------ C28 .. C30
\* The upload of the last request, as logged: its file and what the
\* conversion to JPEG did.
IsUpload(l, op) == l.op = op /\ l.venue_id # 0
UploadExt(l) == IF HasDot(l.id) THEN Ext(l.id) ELSE ""
Named(l) == l.id # None /\ l.id # ""
Disallowed(l, allowed) == Named(l) /\ UploadExt(l) \notin allowed
Sniffed(l) ==
    IF l.arg >= 12 /\ l.type \in {"png", "jpeg", "webp", "pdf", "heic"}
    THEN l.type
    ELSE None
NeedsConversion(l) == Sniffed(l) = "heic" \/ UploadExt(l) \in {"heic", "heif"}
MenuColumns(row) == <<row.menu_data, row.menu_filename, row.menu_content_type>>
LogoColumns(row) == <<row.logo_data, row.logo_filename, row.logo_content_type>>
MimeOf(format) ==
    CASE format = "pdf" -> "application/pdf"
      [] format = "png" -> "image/png"
      [] format \in {"jpeg", "jpg"} -> "image/jpeg"
      [] format = "webp" -> "image/webp"
      [] OTHER -> "application/octet-stream"

\* C28 as stated: a menu upload of 10,000,001 bytes with an allowed
\* extension is rejected and the Venue's menu_data, menu_filename and
\* menu_content_type are unchanged.
TenMillionAndOneRejected ==
    [][(/\ IsUpload(last', "upload_menu")
        /\ UploadExt(last') \in ALLOWED_MENU_EXTENSIONS
        /\ last'.arg = 10000001)
       => /\ last'.body = "File too large"
          /\ MenuColumns(files'[session]) = MenuColumns(files[session])]_vars

\* C28, amended: the ceiling is 10 * 1024 * 1024 = 10,485,760 bytes. A menu
\* upload with an allowed extension that is longer than that is rejected and
\* the Venue's menu_data, menu_filename and menu_content_type are unchanged;
\* one of 10,000,001 bytes, or of exactly 10,485,760 bytes, is not rejected
\* for its size and is stored.
MenuCeilingIsTenMebibytes ==
    [][(/\ IsUpload(last', "upload_menu")
        /\ UploadExt(last') \in ALLOWED_MENU_EXTENSIONS)
       => /\ last'.arg > 10485760 =>
                /\ last'.body = "File too large"
                /\ MenuColumns(files'[session]) = MenuColumns(files[session])
          /\ (last'.arg \in {10000001, 10485760} /\ ~NeedsConversion(last')) =>
                /\ last'.body = "uploaded"
                /\ files'[session].menu_data = [magic |-> last'.type, size |-> last'.arg]
                /\ files'[session].menu_filename = last'.id]_vars

\* A menu of one byte over the ceiling was refused while a menu was stored.
OversizeMenuRefused ==
    /\ IsUpload(last, "upload_menu")
    /\ last.arg = 10485761
    /\ last.body = "File too large"
    /\ files[session].menu_data # NoData

\* C29 as stated: for every accepted menu upload whose leading bytes identify
\* PNG, JPEG, WEBP or PDF, the stored menu_content_type is the MIME type of
\* the detected format whatever allowed extension the filename has; the
\* extension decides only when no format is detected.
SniffingBeatsExtension ==
    (IsUpload(last, "upload_menu") /\ last.body = "uploaded") =>
        files[session].menu_content_type =
            IF Sniffed(last) \in {"png", "jpeg", "webp", "pdf"}
            THEN MimeOf(Sniffed(last))
            ELSE MimeOf(UploadExt(last))

\* C29, amended: an accepted menu upload named .heic or .heif, or one whose
\* bytes are HEIC, is stored as the JPEG it was converted to, with
\* menu_content_type image/jpeg and a filename ending in .jpg, whatever
\* format its leading bytes identify. For every other accepted menu upload
\* the stored menu_content_type is the MIME type of the format detected in
\* its first 12 bytes (PNG, JPEG, WEBP or PDF), whatever allowed extension
\* the filename has, and the extension decides only when no format is
\* detected, a file shorter than 12 bytes included.
SniffingBeatsExtensionExceptHeic ==
    (IsUpload(last, "upload_menu") /\ last.body = "uploaded") =>
        IF NeedsConversion(last)
        THEN /\ files[session].menu_content_type = "image/jpeg"
             /\ files[session].menu_data.magic = "jpeg"
             /\ files[session].menu_filename \in {"photo.jpg", "menu.jpg", "logo.jpg"}
        ELSE /\ files[session].menu_content_type =
                    IF Sniffed(last) \in {"png", "jpeg", "webp", "pdf"}
                    THEN MimeOf(Sniffed(last))
                    ELSE MimeOf(UploadExt(last))
             /\ files[session].menu_data.magic = last.type

\* JPEG bytes named photo.png were stored as image/jpeg.
JpegNamedPngStored ==
    /\ IsUpload(last, "upload_menu")
    /\ last.body = "uploaded"
    /\ last.id = "photo.png"
    /\ last.type = "jpeg"
    /\ last.arg >= 12
    /\ files[session].menu_content_type = "image/jpeg"

\* C30: a menu or logo upload that fails because of a disallowed extension,
\* an oversize payload or a failed HEIC conversion changes none of the
\* Venue's stored file columns, and a valid upload that follows a failed one
\* is stored.
FailedMenu(l) ==
    /\ IsUpload(l, "upload_menu")
    /\ Named(l)
    /\ \/ Disallowed(l, ALLOWED_MENU_EXTENSIONS)
       \/ l.arg > 10 * 1024 * 1024
       \/ NeedsConversion(l) /\ l.outcome = "failed"
FailedLogo(l) ==
    /\ IsUpload(l, "upload_logo")
    /\ Named(l)
    /\ \/ Disallowed(l, ALLOWED_LOGO_EXTENSIONS)
       \/ l.arg > 2 * 1024 * 1024
       \/ NeedsConversion(l) /\ l.outcome = "failed"
ValidMenu(l) == IsUpload(l, "upload_menu") /\ Named(l) /\ ~FailedMenu(l)
ValidLogo(l) == IsUpload(l, "upload_logo") /\ Named(l) /\ ~FailedLogo(l)
StoredName(l) == IF NeedsConversion(l) THEN JpgName(l.id) ELSE l.id
StoredData(l) ==
    [magic |-> IF NeedsConversion(l) THEN "jpeg" ELSE l.type, size |-> l.arg]

UploadErrorsLeaveFiles ==
    [][/\ (FailedMenu(last') \/ FailedLogo(last')) =>
              /\ files' = files
              /\ last'.body \in {"Invalid file type", "File too large",
                                 "Could not convert HEIC image"}
       /\ ((FailedMenu(last) \/ FailedLogo(last)) /\ ValidMenu(last')) =>
              /\ last'.body = "uploaded"
              /\ files'[session].menu_data = StoredData(last')
              /\ files'[session].menu_filename = StoredName(last')
              /\ LogoColumns(files'[session]) = LogoColumns(files[session])
       /\ ((FailedMenu(last) \/ FailedLogo(last)) /\ ValidLogo(last')) =>
              /\ last'.body = "uploaded"
              /\ files'[session].logo_data = StoredData(last')
              /\ files'[session].logo_filename = StoredName(last')
              /\ MenuColumns(files'[session]) = MenuColumns(files[session])]_vars

\* A logo whose conversion failed was refused while a logo and a menu were
\* stored.
FailedConversionKeptFiles ==
    /\ FailedLogo(last)
    /\ NeedsConversion(last)
    /\ last.arg <= 2 * 1024 * 1024
    /\ files[session].logo_data # NoData
    /\ files[session].menu_data # NoData

\* ------------------------------------------------------------ C31 .. C37
\* The last request was a create-subscription call without subscription id.
CallWithoutId == last.op = "paypal_create_subscription" /\ last.id = None

\* ---------------------------------------------------------------------
\* C31  A paypal_create_subscription request without a subscription_id is
\* answered 400 before PayPal is called, whatever PayPal would have
\* answered, and creates or changes no Venue (nor the session).
NoSubscriptionIdRejected ==
    CallWithoutId =>
        /\ last.code = 400
        /\ last.body = "No subscription ID provided"
        /\ last.outcome = "not_called"
        /\ venues = before
        /\ session = session_before
        /\ \A o \in VerifyOutcomes, e \in PaypalEmails, sd \in SubData :
            LET r == CreateSubscription(before, session_before,
                                        [subscription_id |-> None, email |-> e,
                                         venue_name |-> None], o, sd)
            IN  r.code = 400 /\ r.venues = before /\ r.session = session_before

\* A call without subscription id was refused although a Venue has the
\* email it gave.
CallWithoutIdOnKnownEmail ==
    /\ CallWithoutId
    /\ last.code = 400
    /\ ByLowerEmail(venues, last.arg) # 0

\* The provider id column a status-changing webhook event looks a Venue up
\* by (None: the event changes no status).
KeyColumn ==
    CASE last.op = "paypal_webhook"
         /\ last.type \in {"BILLING.SUBSCRIPTION.ACTIVATED", "BILLING.SUBSCRIPTION.CANCELLED",
                           "BILLING.SUBSCRIPTION.SUSPENDED"} -> "paypal_subscription_id"
      [] StripeEvent("invoice.payment_failed") -> "stripe_customer_id"
      [] StripeEvent("customer.subscription.updated")
         \/ StripeEvent("customer.subscription.deleted") -> "stripe_subscription_id"
      [] OTHER -> None

\* ---------------------------------------------------------------------
\* C33  A status-changing webhook changes a Venue only if the Venue's
\* provider id is not null and equals the id the event carries: an event
\* without id changes no Venue, in particular none whose provider id column
\* is null.
WebhookChangesOnlyItsVenue ==
    \A i \in 1..Len(before) :
        (last.op \in {"paypal_webhook", "stripe_webhook"} /\ venues[i] # before[i]) =>
            /\ KeyColumn # None
            /\ before[i][KeyColumn] # None
            /\ before[i][KeyColumn] = last.id

\* ---------------------------------------------------------------------
\* C34  The active flag is monotone: no webhook, signup, attach or admin
\* operation sets a Venue's active from false back to true, so a cancelled
\* Venue stays switched off when a later ACTIVATED event or a PayPal signup
\* with its email makes its subscription_status 'active' or 'trialing'.
ActiveNeverRestored ==
    \A i \in Ids(before) : ~before[i].active => ~venues[i].active

\* A PayPal subscription was attached by email to a cancelled Venue: its
\* status is 'trialing' or 'active' again and it is still switched off.
ResignupStaysSwitchedOff ==
    /\ EmailMatchedCall
    /\ LET i == ByLowerEmail(before, last.arg) IN
        /\ before[i].subscription_status = "canceled"
        /\ ~before[i].active
        /\ venues[i].subscription_status \in {"active", "trialing"}
        /\ ~venues[i].active

\* An ACTIVATED event made a cancelled Venue 'active' and left it switched
\* off.
ActivationStaysSwitchedOff ==
    /\ PaypalEvent("BILLING.SUBSCRIPTION.ACTIVATED")
    /\ \E i \in Ids(before) :
        /\ before[i].subscription_status = "canceled"
        /\ ~before[i].active
        /\ venues[i].subscription_status = "active"
        /\ ~venues[i].active

Blank(x) == x \in {"", "  "}
\* A stored contact column that holds something.
Filled(x) == x # None /\ ~Blank(x)
\* The request of the step was a lead submission.
Submitted(l) == l.op = "capture_submit"
\* The leads of a Venue.
LeadsOf(ls, v) == {i \in 1..Len(ls) : ls[i].venue_id = v}

\* ---------------------------------------------------------------------
\* C32  Every Lead in the store has a non-empty phone or a non-empty email:
\* a submission whose phone and email are both empty or blank is rejected
\* (400 when the Venue takes leads) and creates no Lead.
LeadsHaveContact ==
    [][/\ \A i \in 1..Len(leads') : Filled(leads'[i].phone) \/ Filled(leads'[i].email)
       /\ (Submitted(last') /\ Blank(last'.type) /\ Blank(last'.id)) =>
            /\ leads' = leads
            /\ last'.code \in {400, 402, 404}
            /\ (/\ last'.arg \in Ids(venues)
                /\ venues[last'.arg].active
                /\ venues[last'.arg].subscription_status \in {"active", "trialing"})
               => last'.code = 400]_vars

\* A submission with a blank phone and a blank email was refused by a Venue
\* that has taken a lead before.
BlankSubmissionRefused ==
    /\ Submitted(last)
    /\ last.type = "  "
    /\ last.id = "  "
    /\ last.code = 400
    /\ LeadsOf(leads, last.arg) # {}

\* ---------------------------------------------------------------------
\* C35  Capture gating: a submission creates a Lead only when the Venue it
\* addresses has active = true and subscription_status 'active' or
\* 'trialing'. A cancellation switches the Venue off and nothing switches
\* it on again, so once a cancellation for a Venue has been handled no
\* submission creates a Lead for it, whatever events follow.
CaptureGated ==
    [][/\ leads' # leads =>
            /\ Submitted(last')
            /\ last'.code = 200
            /\ last'.arg \in Ids(venues)
            /\ venues[last'.arg].active
            /\ venues[last'.arg].subscription_status \in {"active", "trialing"}
            /\ Len(leads') = Len(leads) + 1
            /\ SubSeq(leads', 1, Len(leads)) = leads
            /\ leads'[Len(leads')].venue_id = last'.arg
       /\ \A v \in Ids(venues) :
            /\ ~venues[v].active =>
                  ~venues'[v].active /\ LeadsOf(leads', v) = LeadsOf(leads, v)
            /\ (/\ last'.op = "paypal_webhook"
                /\ last'.type = "BILLING.SUBSCRIPTION.CANCELLED"
                /\ ByPaypalSubscription(venues, last'.id) = v) => ~venues'[v].active
            /\ (/\ last'.op = "stripe_webhook" /\ last'.outcome = "event"
                /\ last'.type = "customer.subscription.deleted"
                /\ ByStripeSubscription(venues, last'.id) = v) => ~venues'[v].active]_vars

\* A cancelled Venue that an ACTIVATED event made 'active' again refused a
\* submission with a phone number: the page is not found.
CancelledVenueTakesNoLead ==
    /\ Submitted(last)
    /\ last.type = "555-0100"
    /\ last.code = 404
    /\ last.arg \in Ids(venues)
    /\ venues[last.arg].subscription_status = "active"
    /\ ~venues[last.arg].active

\* ---------------------------------------------------------------------
\* C37  The welcome notification is triggered exactly once for each Venue a
\* provider flow creates, after the creation is committed: the calls of
\* send_welcome_email are one for each Venue of the table, in the order of
\* creation, also when the send failed. The log grows with the table only,
\* so a replayed checkout event, a PayPal reuse by subscription id and a
\* PayPal attach by email trigger none, and the Venue of a failed
\* notification is in the table.
WelcomedOncePerVenue ==
    /\ Len(welcomes) = Len(venues)
    /\ \A i \in 1..Len(welcomes) :
        /\ welcomes[i].venue_id = i
        /\ welcomes[i].outcome \in MailOutcomes
    /\ (last.op \in {"stripe_webhook", "paypal_create_subscription"}
        /\ Len(venues) = Len(before)) => Len(welcomes) = Len(before)

\* A PayPal subscription was attached by email to the only Venue, whose
\* welcome email had failed: the Venue is there and no second email was
\* triggered.
AttachAfterFailedWelcome ==
    /\ EmailMatchedCall
    /\ Len(venues) = 1
    /\ Len(welcomes) = 1
    /\ welcomes[1].outcome = "failed"

\* A checkout event was delivered again for a customer who has a Venue, and
\* a create-subscription call found its subscription on a Venue.
ReplayTriggeredNone ==
    /\ Len(welcomes) = Len(before)
    /\ \/ StripeEvent("checkout.session.completed")
          /\ ByStripeCustomer(before, last.id) # 0
       \/ VerifiedCall /\ ByPaypalSubscription(before, last.id) # 0

====
